---- MODULE Spec2Model ----
(***************************************************************************)
(* Verification-email Lambda handlers of csye6225-CloudJourney/serverless. *)
(*                                                                         *)
(*   "stateless": src/lambda_function.py  (Secrets Manager credential,     *)
(*                SNS-wrapped or direct event, no database)                *)
(*   "stateful":  src/lambda_package/lambda_function.py  (credential read  *)
(*                from the environment at import, SNS event only,          *)
(*                PostgreSQL insert after the send)                        *)
(*                                                                         *)
(* A Python str is the sequence of its code points, so that the code's     *)
(* scans of a string (strip, in, json.dumps, json.loads, repr) are done    *)
(* character by character.  S("text") writes the str of an ASCII literal.  *)
(***************************************************************************)
EXTENDS Integers, Sequences, FiniteSets, TLC

VARIABLES
    variant,    \* which module this process has imported
    environ,    \* os.environ of the process, as found at import
    inv,        \* number of the running (or last) invocation, from 1
    pc,         \* position of the running invocation in lambda_handler
    event,      \* the event of the running invocation
    locals,     \* lambda_handler's local variables
    oracle,     \* outcomes the external collaborators gave so far, in call order
    calls,      \* external calls made so far in this invocation
    conn_open,  \* a psycopg2 connection of this invocation is open
    response,   \* what lambda_handler returned, or the exception that escaped it
    prev        \* event, outcomes, calls and response of the previous invocation

vars == <<variant, environ, inv, pc, event, locals, oracle, calls, conn_open,
          response, prev>>

-----------------------------------------------------------------------------
(* Bounds of the model *)

\* invocations one process serves before the model stops
MaxInvocations == 2

-----------------------------------------------------------------------------
(* Text: a str is a sequence of code points *)

\* the characters U+0020 to U+005F and U+0061 to U+007E, in code point order
AsciiLow == " !\"#$%&'()*+,-./0123456789:;<=>?@ABCDEFGHIJKLMNOPQRSTUVWXYZ[\\]^_"
AsciiHigh == "abcdefghijklmnopqrstuvwxyz{|}~"

\* the characters a literal of this module is written with
LiteralChars ==
    {"\t", "\n", "\f", "\r"}
    \cup {SubSeq(AsciiLow, i, i) : i \in 1..Len(AsciiLow)}
    \cup {SubSeq(AsciiHigh, i, i) : i \in 1..Len(AsciiHigh)}

OrdTable ==
    [c \in LiteralChars |->
        IF c = "\t" THEN 9
        ELSE IF c = "\n" THEN 10
        ELSE IF c = "\f" THEN 12
        ELSE IF c = "\r" THEN 13
        ELSE IF \E i \in 1..Len(AsciiLow) : SubSeq(AsciiLow, i, i) = c
             THEN 31 + (CHOOSE i \in 1..Len(AsciiLow) : SubSeq(AsciiLow, i, i) = c)
             ELSE 96 + (CHOOSE i \in 1..Len(AsciiHigh) : SubSeq(AsciiHigh, i, i) = c)]

\* ord(c)
Ord(c) == OrdTable[c]

\* the str a literal denotes, character by character
Chars(lit) == <<>> \o [i \in 1..Len(lit) |-> Ord(SubSeq(lit, i, i))]

\* the literals of the two handlers and of this module
Literals ==
    {" ", "+", "-", ".", "0", "1", ":", "T", "[", "]", "e", "{", "}", ", ",
     ".0", "0.", ": ", "\"", "u1", "x'", "0.0", "1.5", "NaN", "Sns", "\"}",
     "\\U", "\\n", "\\r", "\\t", "\\u", "\\x", "b64", "dev", "inf", "nan",
     "-0.0", "-inf", "None", "True", "dev.", "null", "t\\k", "true", "False",
     "SG.v1", "email", "false", "SG.env", "abc123", "Message", "Records",
     "http://", "message", "user_id", " dev\r\n", "Infinity", "-Infinity",
     "xRecordsy", "ENV_PREFIX", "\r\n true ", "{\"email\"", "[\"email\"]",
     "SecretBinary", "SecretString", "a@example.com", "q\"@example.com",
     "SENDGRID_API_KEY", "{\"message\": \"", "verification_token",
     "Invalid SNS message", "Invalid event format", "noreply@yourdomain.com",
     "sendgrid_api_key_secret", "cloudjourney.me/unsubscribe>",
     "cloudjourney.me/verify?token=", "noreply@em7116.cloudjourney.me",
     "Failed to log email in database", "Failed to send verification email",
     "Failed to retrieve SendGrid API Key",
     "Verification email sent successfully",
     "https://yourdomain.com/verify?token=",
     "Failed to construct verification link",
     "{\"email\": \"a@example.com\", \"user_id\": ",
     "<mailto:unsubscribe@em7116.cloudjourney.me>, <https://"}

\* their strs, worked out once
LiteralTable == [lit \in Literals |-> Chars(lit)]

\* the str a literal denotes
S(lit) == IF lit \in Literals THEN LiteralTable[lit] ELSE Chars(lit)

\* s[n:]
Drop(s, n) == SubSeq(s, n + 1, Len(s))

\* s.startswith(p)
StartsWith(s, p) == Len(s) >= Len(p) /\ SubSeq(s, 1, Len(p)) = p

\* p in s, for two str
IsSubstring(p, s) ==
    \E i \in 0..(Len(s) - Len(p)) : SubSeq(s, i + 1, i + Len(p)) = p

\* the quote and the backslash
Quote == Ord("\"")
Backslash == Ord("\\")

\* the decimal digits
DigitChars == {Ord("0") + d : d \in 0..9}

IsDigit(c) == c \in DigitChars

DigitValue(c) == c - Ord("0")

\* the places of s that hold c
Places(s, c) == {i \in DOMAIN s : s[i] = c}

\* every element of s is in the set cs
AllIn(s, cs) == \A i \in DOMAIN s : s[i] \in cs

\* no element of s is in the set cs
NoneIn(s, cs) == \A i \in DOMAIN s : s[i] \notin cs

\* the least element of a set of integers that is not empty
Least(ns) == CHOOSE n \in ns : \A m \in ns : n <= m

\* the number of leading elements of s that are in the set cs
Leading(s, cs) ==
    (CHOOSE i \in 1..(Len(s) + 1) :
         (i > Len(s) \/ s[i] \notin cs) /\ \A j \in 1..(i - 1) : s[j] \in cs) - 1

\* the number of trailing elements of s that are in the set cs
Trailing(s, cs) ==
    Len(s) - (CHOOSE i \in 0..Len(s) :
                  (i = 0 \/ s[i] \notin cs) /\ \A j \in (i + 1)..Len(s) : s[j] \in cs)

\* the number of leading characters of s that are decimal digits
DigitRun(s) == Leading(s, DigitChars)

\* the number of leading characters of s that are c
RunOf(c, s) == Leading(s, {c})

\* n copies of the character c
Repeat(c, n) == <<>> \o [i \in 1..n |-> c]

\* str(n) for an integer of the model
RECURSIVE IntToStr(_)
IntToStr(n) ==
    IF n < 0 THEN <<Ord("-")>> \o IntToStr(-n)
    ELSE IF n < 10 THEN <<Ord("0") + n>>
    ELSE IntToStr(n \div 10) \o <<Ord("0") + (n % 10)>>

\* '%0*d' % (width, n), n >= 0
ZeroPadded(n, width) ==
    Repeat(Ord("0"), width - Len(IntToStr(n))) \o IntToStr(n)

HexDigit(d) == IF d < 10 THEN Ord("0") + d ELSE Ord("a") + (d - 10)

\* '%0*x' % (width, n)
RECURSIVE Hex(_, _)
Hex(n, width) ==
    IF width = 0 THEN <<>> ELSE Hex(n \div 16, width - 1) \o <<HexDigit(n % 16)>>

IsHexDigit(c) ==
    \/ IsDigit(c)
    \/ c >= Ord("a") /\ c <= Ord("f")
    \/ c >= Ord("A") /\ c <= Ord("F")

HexValue(c) ==
    IF IsDigit(c) THEN DigitValue(c)
    ELSE IF c >= Ord("a") THEN c - Ord("a") + 10
    ELSE c - Ord("A") + 10

\* int(s, 16) for a str of hexadecimal digits
RECURSIVE HexNumber(_, _)
HexNumber(s, acc) ==
    IF s = <<>> THEN acc ELSE HexNumber(Tail(s), acc * 16 + HexValue(Head(s)))

-----------------------------------------------------------------------------
(* Python values *)

None == [t |-> "none"]
Bool(b) == [t |-> "bool", b |-> b]
Str(s) == [t |-> "str", s |-> s]
\* an int is known by its decimal numeral, a float by its repr
PyInt(numeral) == [t |-> "int", numeral |-> numeral]
Float(repr) == [t |-> "float", repr |-> repr]
List(items) == [t |-> "list", items |-> items]
\* a dict keeps insertion order: a sequence of <<key, value>> pairs, keys str
Dict(pairs) == [t |-> "dict", d |-> pairs]

\* the int n
Num(n) == PyInt(IntToStr(n))

\* result of an expression that may raise
Ok(v) == [exc |-> "none", v |-> v]
Raise(e) == [exc |-> e, v |-> None]

\* bool(v), as `not email` uses it
Truthy(v) ==
    CASE v.t = "none"  -> FALSE
      [] v.t = "bool"  -> v.b
      [] v.t = "str"   -> v.s # <<>>
      [] v.t = "int"   -> v.numeral # S("0")
      [] v.t = "float" -> v.repr \notin {S("0.0"), S("-0.0")}
      [] v.t = "list"  -> v.items # <<>>
      [] v.t = "dict"  -> v.d # <<>>

\* key in d
HasKey(d, k) == \E i \in 1..Len(d.d) : d.d[i][1] = k

\* d[k] for a key that is present
Lookup(d, k) ==
    LET i == CHOOSE j \in 1..Len(d.d) :
                 d.d[j][1] = k /\ \A m \in (j+1)..Len(d.d) : d.d[m][1] # k
    IN  d.d[i][2]

\* pairs after d[k] = v: a key already present keeps its place
DictSet(pairs, k, v) ==
    IF \E i \in 1..Len(pairs) : pairs[i][1] = k
    THEN <<>> \o [i \in 1..Len(pairs) |-> IF pairs[i][1] = k THEN <<k, v>> ELSE pairs[i]]
    ELSE Append(pairs, <<k, v>>)

\* v[k]: subscription with a str key
GetItem(v, k) ==
    IF v.t = "dict"
    THEN IF HasKey(v, k) THEN Ok(Lookup(v, k)) ELSE Raise("KeyError")
    ELSE Raise("TypeError")

\* v[0]: subscription with the index 0
GetFirst(v) ==
    CASE v.t = "list" -> IF v.items # <<>> THEN Ok(v.items[1]) ELSE Raise("IndexError")
      [] v.t = "str"  -> IF v.s # <<>> THEN Ok(Str(<<v.s[1]>>)) ELSE Raise("IndexError")
      [] v.t = "dict" -> Raise("KeyError")
      [] OTHER        -> Raise("TypeError")

\* v.get(k): only a dict has the method
DictGet(v, k) ==
    IF v.t = "dict"
    THEN Ok(IF HasKey(v, k) THEN Lookup(v, k) ELSE None)
    ELSE Raise("AttributeError")

\* k in v, for a str k
Contains(v, k) ==
    CASE v.t = "dict" -> Ok(HasKey(v, k))
      [] v.t = "list" -> Ok(\E i \in 1..Len(v.items) : v.items[i] = Str(k))
      [] v.t = "str"  -> Ok(IsSubstring(k, v.s))
      [] OTHER        -> Raise("TypeError")

-----------------------------------------------------------------------------
(* str(v) and repr(v), as an f-string field applies them *)

\* the runs of code points from U+0080 on that str.isprintable() rejects
\* (Unicode 14.0, Python 3.11): controls, separators other than the space,
\* format characters, surrogates, private use and unassigned code points
NonPrintableRanges ==
    <<(<<128, 160>>), (<<173, 173>>), (<<888, 889>>), (<<896, 899>>), (<<907, 907>>),
      (<<909, 909>>), (<<930, 930>>), (<<1328, 1328>>), (<<1367, 1368>>),
      (<<1419, 1420>>), (<<1424, 1424>>), (<<1480, 1487>>), (<<1515, 1518>>),
      (<<1525, 1541>>), (<<1564, 1564>>), (<<1757, 1757>>), (<<1806, 1807>>),
      (<<1867, 1868>>), (<<1970, 1983>>), (<<2043, 2044>>), (<<2094, 2095>>),
      (<<2111, 2111>>), (<<2140, 2141>>), (<<2143, 2143>>), (<<2155, 2159>>),
      (<<2191, 2199>>), (<<2274, 2274>>), (<<2436, 2436>>), (<<2445, 2446>>),
      (<<2449, 2450>>), (<<2473, 2473>>), (<<2481, 2481>>), (<<2483, 2485>>),
      (<<2490, 2491>>), (<<2501, 2502>>), (<<2505, 2506>>), (<<2511, 2518>>),
      (<<2520, 2523>>), (<<2526, 2526>>), (<<2532, 2533>>), (<<2559, 2560>>),
      (<<2564, 2564>>), (<<2571, 2574>>), (<<2577, 2578>>), (<<2601, 2601>>),
      (<<2609, 2609>>), (<<2612, 2612>>), (<<2615, 2615>>), (<<2618, 2619>>),
      (<<2621, 2621>>), (<<2627, 2630>>), (<<2633, 2634>>), (<<2638, 2640>>),
      (<<2642, 2648>>), (<<2653, 2653>>), (<<2655, 2661>>), (<<2679, 2688>>),
      (<<2692, 2692>>), (<<2702, 2702>>), (<<2706, 2706>>), (<<2729, 2729>>),
      (<<2737, 2737>>), (<<2740, 2740>>), (<<2746, 2747>>), (<<2758, 2758>>),
      (<<2762, 2762>>), (<<2766, 2767>>), (<<2769, 2783>>), (<<2788, 2789>>),
      (<<2802, 2808>>), (<<2816, 2816>>), (<<2820, 2820>>), (<<2829, 2830>>),
      (<<2833, 2834>>), (<<2857, 2857>>), (<<2865, 2865>>), (<<2868, 2868>>),
      (<<2874, 2875>>), (<<2885, 2886>>), (<<2889, 2890>>), (<<2894, 2900>>),
      (<<2904, 2907>>), (<<2910, 2910>>), (<<2916, 2917>>), (<<2936, 2945>>),
      (<<2948, 2948>>), (<<2955, 2957>>), (<<2961, 2961>>), (<<2966, 2968>>),
      (<<2971, 2971>>), (<<2973, 2973>>), (<<2976, 2978>>), (<<2981, 2983>>),
      (<<2987, 2989>>), (<<3002, 3005>>), (<<3011, 3013>>), (<<3017, 3017>>),
      (<<3022, 3023>>), (<<3025, 3030>>), (<<3032, 3045>>), (<<3067, 3071>>),
      (<<3085, 3085>>), (<<3089, 3089>>), (<<3113, 3113>>), (<<3130, 3131>>),
      (<<3141, 3141>>), (<<3145, 3145>>), (<<3150, 3156>>), (<<3159, 3159>>),
      (<<3163, 3164>>), (<<3166, 3167>>), (<<3172, 3173>>), (<<3184, 3190>>),
      (<<3213, 3213>>), (<<3217, 3217>>), (<<3241, 3241>>), (<<3252, 3252>>),
      (<<3258, 3259>>), (<<3269, 3269>>), (<<3273, 3273>>), (<<3278, 3284>>),
      (<<3287, 3292>>), (<<3295, 3295>>), (<<3300, 3301>>), (<<3312, 3312>>),
      (<<3315, 3327>>), (<<3341, 3341>>), (<<3345, 3345>>), (<<3397, 3397>>),
      (<<3401, 3401>>), (<<3408, 3411>>), (<<3428, 3429>>), (<<3456, 3456>>),
      (<<3460, 3460>>), (<<3479, 3481>>), (<<3506, 3506>>), (<<3516, 3516>>),
      (<<3518, 3519>>), (<<3527, 3529>>), (<<3531, 3534>>), (<<3541, 3541>>),
      (<<3543, 3543>>), (<<3552, 3557>>), (<<3568, 3569>>), (<<3573, 3584>>),
      (<<3643, 3646>>), (<<3676, 3712>>), (<<3715, 3715>>), (<<3717, 3717>>),
      (<<3723, 3723>>), (<<3748, 3748>>), (<<3750, 3750>>), (<<3774, 3775>>),
      (<<3781, 3781>>), (<<3783, 3783>>), (<<3790, 3791>>), (<<3802, 3803>>),
      (<<3808, 3839>>), (<<3912, 3912>>), (<<3949, 3952>>), (<<3992, 3992>>),
      (<<4029, 4029>>), (<<4045, 4045>>), (<<4059, 4095>>), (<<4294, 4294>>),
      (<<4296, 4300>>), (<<4302, 4303>>), (<<4681, 4681>>), (<<4686, 4687>>),
      (<<4695, 4695>>), (<<4697, 4697>>), (<<4702, 4703>>), (<<4745, 4745>>),
      (<<4750, 4751>>), (<<4785, 4785>>), (<<4790, 4791>>), (<<4799, 4799>>),
      (<<4801, 4801>>), (<<4806, 4807>>), (<<4823, 4823>>), (<<4881, 4881>>),
      (<<4886, 4887>>), (<<4955, 4956>>), (<<4989, 4991>>), (<<5018, 5023>>),
      (<<5110, 5111>>), (<<5118, 5119>>), (<<5760, 5760>>), (<<5789, 5791>>),
      (<<5881, 5887>>), (<<5910, 5918>>), (<<5943, 5951>>), (<<5972, 5983>>),
      (<<5997, 5997>>), (<<6001, 6001>>), (<<6004, 6015>>), (<<6110, 6111>>),
      (<<6122, 6127>>), (<<6138, 6143>>), (<<6158, 6158>>), (<<6170, 6175>>),
      (<<6265, 6271>>), (<<6315, 6319>>), (<<6390, 6399>>), (<<6431, 6431>>),
      (<<6444, 6447>>), (<<6460, 6463>>), (<<6465, 6467>>), (<<6510, 6511>>),
      (<<6517, 6527>>), (<<6572, 6575>>), (<<6602, 6607>>), (<<6619, 6621>>),
      (<<6684, 6685>>), (<<6751, 6751>>), (<<6781, 6782>>), (<<6794, 6799>>),
      (<<6810, 6815>>), (<<6830, 6831>>), (<<6863, 6911>>), (<<6989, 6991>>),
      (<<7039, 7039>>), (<<7156, 7163>>), (<<7224, 7226>>), (<<7242, 7244>>),
      (<<7305, 7311>>), (<<7355, 7356>>), (<<7368, 7375>>), (<<7419, 7423>>),
      (<<7958, 7959>>), (<<7966, 7967>>), (<<8006, 8007>>), (<<8014, 8015>>),
      (<<8024, 8024>>), (<<8026, 8026>>), (<<8028, 8028>>), (<<8030, 8030>>),
      (<<8062, 8063>>), (<<8117, 8117>>), (<<8133, 8133>>), (<<8148, 8149>>),
      (<<8156, 8156>>), (<<8176, 8177>>), (<<8181, 8181>>), (<<8191, 8207>>),
      (<<8232, 8239>>), (<<8287, 8303>>), (<<8306, 8307>>), (<<8335, 8335>>),
      (<<8349, 8351>>), (<<8385, 8399>>), (<<8433, 8447>>), (<<8588, 8591>>),
      (<<9255, 9279>>), (<<9291, 9311>>), (<<11124, 11125>>), (<<11158, 11158>>),
      (<<11508, 11512>>), (<<11558, 11558>>), (<<11560, 11564>>), (<<11566, 11567>>),
      (<<11624, 11630>>), (<<11633, 11646>>), (<<11671, 11679>>), (<<11687, 11687>>),
      (<<11695, 11695>>), (<<11703, 11703>>), (<<11711, 11711>>), (<<11719, 11719>>),
      (<<11727, 11727>>), (<<11735, 11735>>), (<<11743, 11743>>), (<<11870, 11903>>),
      (<<11930, 11930>>), (<<12020, 12031>>), (<<12246, 12271>>), (<<12284, 12288>>),
      (<<12352, 12352>>), (<<12439, 12440>>), (<<12544, 12548>>), (<<12592, 12592>>),
      (<<12687, 12687>>), (<<12772, 12783>>), (<<12831, 12831>>), (<<42125, 42127>>),
      (<<42183, 42191>>), (<<42540, 42559>>), (<<42744, 42751>>), (<<42955, 42959>>),
      (<<42962, 42962>>), (<<42964, 42964>>), (<<42970, 42993>>), (<<43053, 43055>>),
      (<<43066, 43071>>), (<<43128, 43135>>), (<<43206, 43213>>), (<<43226, 43231>>),
      (<<43348, 43358>>), (<<43389, 43391>>), (<<43470, 43470>>), (<<43482, 43485>>),
      (<<43519, 43519>>), (<<43575, 43583>>), (<<43598, 43599>>), (<<43610, 43611>>),
      (<<43715, 43738>>), (<<43767, 43776>>), (<<43783, 43784>>), (<<43791, 43792>>),
      (<<43799, 43807>>), (<<43815, 43815>>), (<<43823, 43823>>), (<<43884, 43887>>),
      (<<44014, 44015>>), (<<44026, 44031>>), (<<55204, 55215>>), (<<55239, 55242>>),
      (<<55292, 63743>>), (<<64110, 64111>>), (<<64218, 64255>>), (<<64263, 64274>>),
      (<<64280, 64284>>), (<<64311, 64311>>), (<<64317, 64317>>), (<<64319, 64319>>),
      (<<64322, 64322>>), (<<64325, 64325>>), (<<64451, 64466>>), (<<64912, 64913>>),
      (<<64968, 64974>>), (<<64976, 65007>>), (<<65050, 65055>>), (<<65107, 65107>>),
      (<<65127, 65127>>), (<<65132, 65135>>), (<<65141, 65141>>), (<<65277, 65280>>),
      (<<65471, 65473>>), (<<65480, 65481>>), (<<65488, 65489>>), (<<65496, 65497>>),
      (<<65501, 65503>>), (<<65511, 65511>>), (<<65519, 65531>>), (<<65534, 65535>>),
      (<<65548, 65548>>), (<<65575, 65575>>), (<<65595, 65595>>), (<<65598, 65598>>),
      (<<65614, 65615>>), (<<65630, 65663>>), (<<65787, 65791>>), (<<65795, 65798>>),
      (<<65844, 65846>>), (<<65935, 65935>>), (<<65949, 65951>>), (<<65953, 65999>>),
      (<<66046, 66175>>), (<<66205, 66207>>), (<<66257, 66271>>), (<<66300, 66303>>),
      (<<66340, 66348>>), (<<66379, 66383>>), (<<66427, 66431>>), (<<66462, 66462>>),
      (<<66500, 66503>>), (<<66518, 66559>>), (<<66718, 66719>>), (<<66730, 66735>>),
      (<<66772, 66775>>), (<<66812, 66815>>), (<<66856, 66863>>), (<<66916, 66926>>),
      (<<66939, 66939>>), (<<66955, 66955>>), (<<66963, 66963>>), (<<66966, 66966>>),
      (<<66978, 66978>>), (<<66994, 66994>>), (<<67002, 67002>>), (<<67005, 67071>>),
      (<<67383, 67391>>), (<<67414, 67423>>), (<<67432, 67455>>), (<<67462, 67462>>),
      (<<67505, 67505>>), (<<67515, 67583>>), (<<67590, 67591>>), (<<67593, 67593>>),
      (<<67638, 67638>>), (<<67641, 67643>>), (<<67645, 67646>>), (<<67670, 67670>>),
      (<<67743, 67750>>), (<<67760, 67807>>), (<<67827, 67827>>), (<<67830, 67834>>),
      (<<67868, 67870>>), (<<67898, 67902>>), (<<67904, 67967>>), (<<68024, 68027>>),
      (<<68048, 68049>>), (<<68100, 68100>>), (<<68103, 68107>>), (<<68116, 68116>>),
      (<<68120, 68120>>), (<<68150, 68151>>), (<<68155, 68158>>), (<<68169, 68175>>),
      (<<68185, 68191>>), (<<68256, 68287>>), (<<68327, 68330>>), (<<68343, 68351>>),
      (<<68406, 68408>>), (<<68438, 68439>>), (<<68467, 68471>>), (<<68498, 68504>>),
      (<<68509, 68520>>), (<<68528, 68607>>), (<<68681, 68735>>), (<<68787, 68799>>),
      (<<68851, 68857>>), (<<68904, 68911>>), (<<68922, 69215>>), (<<69247, 69247>>),
      (<<69290, 69290>>), (<<69294, 69295>>), (<<69298, 69375>>), (<<69416, 69423>>),
      (<<69466, 69487>>), (<<69514, 69551>>), (<<69580, 69599>>), (<<69623, 69631>>),
      (<<69710, 69713>>), (<<69750, 69758>>), (<<69821, 69821>>), (<<69827, 69839>>),
      (<<69865, 69871>>), (<<69882, 69887>>), (<<69941, 69941>>), (<<69960, 69967>>),
      (<<70007, 70015>>), (<<70112, 70112>>), (<<70133, 70143>>), (<<70162, 70162>>),
      (<<70207, 70271>>), (<<70279, 70279>>), (<<70281, 70281>>), (<<70286, 70286>>),
      (<<70302, 70302>>), (<<70314, 70319>>), (<<70379, 70383>>), (<<70394, 70399>>),
      (<<70404, 70404>>), (<<70413, 70414>>), (<<70417, 70418>>), (<<70441, 70441>>),
      (<<70449, 70449>>), (<<70452, 70452>>), (<<70458, 70458>>), (<<70469, 70470>>),
      (<<70473, 70474>>), (<<70478, 70479>>), (<<70481, 70486>>), (<<70488, 70492>>),
      (<<70500, 70501>>), (<<70509, 70511>>), (<<70517, 70655>>), (<<70748, 70748>>),
      (<<70754, 70783>>), (<<70856, 70863>>), (<<70874, 71039>>), (<<71094, 71095>>),
      (<<71134, 71167>>), (<<71237, 71247>>), (<<71258, 71263>>), (<<71277, 71295>>),
      (<<71354, 71359>>), (<<71370, 71423>>), (<<71451, 71452>>), (<<71468, 71471>>),
      (<<71495, 71679>>), (<<71740, 71839>>), (<<71923, 71934>>), (<<71943, 71944>>),
      (<<71946, 71947>>), (<<71956, 71956>>), (<<71959, 71959>>), (<<71990, 71990>>),
      (<<71993, 71994>>), (<<72007, 72015>>), (<<72026, 72095>>), (<<72104, 72105>>),
      (<<72152, 72153>>), (<<72165, 72191>>), (<<72264, 72271>>), (<<72355, 72367>>),
      (<<72441, 72703>>), (<<72713, 72713>>), (<<72759, 72759>>), (<<72774, 72783>>),
      (<<72813, 72815>>), (<<72848, 72849>>), (<<72872, 72872>>), (<<72887, 72959>>),
      (<<72967, 72967>>), (<<72970, 72970>>), (<<73015, 73017>>), (<<73019, 73019>>),
      (<<73022, 73022>>), (<<73032, 73039>>), (<<73050, 73055>>), (<<73062, 73062>>),
      (<<73065, 73065>>), (<<73103, 73103>>), (<<73106, 73106>>), (<<73113, 73119>>),
      (<<73130, 73439>>), (<<73465, 73647>>), (<<73649, 73663>>), (<<73714, 73726>>),
      (<<74650, 74751>>), (<<74863, 74863>>), (<<74869, 74879>>), (<<75076, 77711>>),
      (<<77811, 77823>>), (<<78895, 82943>>), (<<83527, 92159>>), (<<92729, 92735>>),
      (<<92767, 92767>>), (<<92778, 92781>>), (<<92863, 92863>>), (<<92874, 92879>>),
      (<<92910, 92911>>), (<<92918, 92927>>), (<<92998, 93007>>), (<<93018, 93018>>),
      (<<93026, 93026>>), (<<93048, 93052>>), (<<93072, 93759>>), (<<93851, 93951>>),
      (<<94027, 94030>>), (<<94088, 94094>>), (<<94112, 94175>>), (<<94181, 94191>>),
      (<<94194, 94207>>), (<<100344, 100351>>), (<<101590, 101631>>),
      (<<101641, 110575>>), (<<110580, 110580>>), (<<110588, 110588>>),
      (<<110591, 110591>>), (<<110883, 110927>>), (<<110931, 110947>>),
      (<<110952, 110959>>), (<<111356, 113663>>), (<<113771, 113775>>),
      (<<113789, 113791>>), (<<113801, 113807>>), (<<113818, 113819>>),
      (<<113824, 118527>>), (<<118574, 118575>>), (<<118599, 118607>>),
      (<<118724, 118783>>), (<<119030, 119039>>), (<<119079, 119080>>),
      (<<119155, 119162>>), (<<119275, 119295>>), (<<119366, 119519>>),
      (<<119540, 119551>>), (<<119639, 119647>>), (<<119673, 119807>>),
      (<<119893, 119893>>), (<<119965, 119965>>), (<<119968, 119969>>),
      (<<119971, 119972>>), (<<119975, 119976>>), (<<119981, 119981>>),
      (<<119994, 119994>>), (<<119996, 119996>>), (<<120004, 120004>>),
      (<<120070, 120070>>), (<<120075, 120076>>), (<<120085, 120085>>),
      (<<120093, 120093>>), (<<120122, 120122>>), (<<120127, 120127>>),
      (<<120133, 120133>>), (<<120135, 120137>>), (<<120145, 120145>>),
      (<<120486, 120487>>), (<<120780, 120781>>), (<<121484, 121498>>),
      (<<121504, 121504>>), (<<121520, 122623>>), (<<122655, 122879>>),
      (<<122887, 122887>>), (<<122905, 122906>>), (<<122914, 122914>>),
      (<<122917, 122917>>), (<<122923, 123135>>), (<<123181, 123183>>),
      (<<123198, 123199>>), (<<123210, 123213>>), (<<123216, 123535>>),
      (<<123567, 123583>>), (<<123642, 123646>>), (<<123648, 124895>>),
      (<<124903, 124903>>), (<<124908, 124908>>), (<<124911, 124911>>),
      (<<124927, 124927>>), (<<125125, 125126>>), (<<125143, 125183>>),
      (<<125260, 125263>>), (<<125274, 125277>>), (<<125280, 126064>>),
      (<<126133, 126208>>), (<<126270, 126463>>), (<<126468, 126468>>),
      (<<126496, 126496>>), (<<126499, 126499>>), (<<126501, 126502>>),
      (<<126504, 126504>>), (<<126515, 126515>>), (<<126520, 126520>>),
      (<<126522, 126522>>), (<<126524, 126529>>), (<<126531, 126534>>),
      (<<126536, 126536>>), (<<126538, 126538>>), (<<126540, 126540>>),
      (<<126544, 126544>>), (<<126547, 126547>>), (<<126549, 126550>>),
      (<<126552, 126552>>), (<<126554, 126554>>), (<<126556, 126556>>),
      (<<126558, 126558>>), (<<126560, 126560>>), (<<126563, 126563>>),
      (<<126565, 126566>>), (<<126571, 126571>>), (<<126579, 126579>>),
      (<<126584, 126584>>), (<<126589, 126589>>), (<<126591, 126591>>),
      (<<126602, 126602>>), (<<126620, 126624>>), (<<126628, 126628>>),
      (<<126634, 126634>>), (<<126652, 126703>>), (<<126706, 126975>>),
      (<<127020, 127023>>), (<<127124, 127135>>), (<<127151, 127152>>),
      (<<127168, 127168>>), (<<127184, 127184>>), (<<127222, 127231>>),
      (<<127406, 127461>>), (<<127491, 127503>>), (<<127548, 127551>>),
      (<<127561, 127567>>), (<<127570, 127583>>), (<<127590, 127743>>),
      (<<128728, 128732>>), (<<128749, 128751>>), (<<128765, 128767>>),
      (<<128884, 128895>>), (<<128985, 128991>>), (<<129004, 129007>>),
      (<<129009, 129023>>), (<<129036, 129039>>), (<<129096, 129103>>),
      (<<129114, 129119>>), (<<129160, 129167>>), (<<129198, 129199>>),
      (<<129202, 129279>>), (<<129620, 129631>>), (<<129646, 129647>>),
      (<<129653, 129655>>), (<<129661, 129663>>), (<<129671, 129679>>),
      (<<129709, 129711>>), (<<129723, 129727>>), (<<129734, 129743>>),
      (<<129754, 129759>>), (<<129768, 129775>>), (<<129783, 129791>>),
      (<<129939, 129939>>), (<<129995, 130031>>), (<<130042, 131071>>),
      (<<173792, 173823>>), (<<177977, 177983>>), (<<178206, 178207>>),
      (<<183970, 183983>>), (<<191457, 194559>>), (<<195102, 196607>>),
      (<<201547, 917759>>), (<<918000, 1114111>>)>>

\* chr(c).isprintable()
IsPrintable(c) ==
    IF c < 127 THEN c >= 32
    ELSE /\ c # 127
         /\ \A i \in 1..Len(NonPrintableRanges) :
                c < NonPrintableRanges[i][1] \/ c > NonPrintableRanges[i][2]

\* one character of repr(s) for a str s written between quotes q
ReprChar(c, q) ==
    IF c = q \/ c = Backslash THEN <<Backslash, c>>
    ELSE IF c = Ord("\t") THEN S("\\t")
    ELSE IF c = Ord("\n") THEN S("\\n")
    ELSE IF c = Ord("\r") THEN S("\\r")
    ELSE IF IsPrintable(c) THEN <<c>>
    ELSE IF c < 256 THEN S("\\x") \o Hex(c, 2)
    ELSE IF c < 65536 THEN S("\\u") \o Hex(c, 4)
    ELSE S("\\U") \o Hex(c, 8)

\* the characters lo..hi of s as repr writes them, by halves
RECURSIVE ReprRange(_, _, _, _)
ReprRange(s, q, lo, hi) ==
    IF lo > hi THEN <<>>
    ELSE IF lo = hi THEN ReprChar(s[lo], q)
    ELSE ReprRange(s, q, lo, (lo + hi) \div 2) \o ReprRange(s, q, ((lo + hi) \div 2) + 1, hi)

ReprChars(s, q) == ReprRange(s, q, 1, Len(s))

\* the quote repr(s) uses: double quotes only for a str with ' and without "
ReprQuote(s) ==
    IF (\E i \in 1..Len(s) : s[i] = Ord("'")) /\ (\A i \in 1..Len(s) : s[i] # Quote)
    THEN Quote
    ELSE Ord("'")

\* repr(s) for a str s
ReprStr(s) == <<ReprQuote(s)>> \o ReprChars(s, ReprQuote(s)) \o <<ReprQuote(s)>>

\* sys.get_int_max_str_digits(): the longest int that str() and int() convert
MaxStrDigits == 4300

\* the number of digits of an int
IntDigits(numeral) ==
    IF numeral # <<>> /\ Head(numeral) = Ord("-") THEN Len(numeral) - 1 ELSE Len(numeral)

\* v is, or holds, an int too long for str(): repr and json.dumps raise ValueError
RECURSIVE HasLongInt(_)
HasLongInt(v) ==
    CASE v.t = "int"  -> IntDigits(v.numeral) > MaxStrDigits
      [] v.t = "list" -> \E i \in 1..Len(v.items) : HasLongInt(v.items[i])
      [] v.t = "dict" -> \E i \in 1..Len(v.d) : HasLongInt(v.d[i][2])
      [] OTHER -> FALSE

RECURSIVE ReprText(_), ReprItems(_, _, _), ReprMembers(_, _, _)
\* the text of repr(v), for a v that has one
ReprText(v) ==
    CASE v.t = "none"  -> S("None")
      [] v.t = "bool"  -> IF v.b THEN S("True") ELSE S("False")
      [] v.t = "str"   -> ReprStr(v.s)
      [] v.t = "int"   -> v.numeral
      [] v.t = "float" -> v.repr
      [] v.t = "list"  -> S("[") \o ReprItems(v.items, 1, Len(v.items)) \o S("]")
      [] v.t = "dict"  -> S("{") \o ReprMembers(v.d, 1, Len(v.d)) \o S("}")

\* the items lo..hi with ", " between them, by halves
ReprItems(items, lo, hi) ==
    IF lo > hi THEN <<>>
    ELSE IF lo = hi THEN ReprText(items[lo])
    ELSE ReprItems(items, lo, (lo + hi) \div 2) \o S(", ")
         \o ReprItems(items, ((lo + hi) \div 2) + 1, hi)

\* the members lo..hi as key: value with ", " between them, by halves
ReprMembers(pairs, lo, hi) ==
    IF lo > hi THEN <<>>
    ELSE IF lo = hi THEN ReprStr(pairs[lo][1]) \o S(": ") \o ReprText(pairs[lo][2])
    ELSE ReprMembers(pairs, lo, (lo + hi) \div 2) \o S(", ")
         \o ReprMembers(pairs, ((lo + hi) \div 2) + 1, hi)

\* repr(v)
Repr(v) == IF HasLongInt(v) THEN Raise("ValueError") ELSE Ok(ReprText(v))

\* format(v, ""), which is str(v): a str is itself, any other value its repr
Format(v) == IF v.t = "str" THEN Ok(v.s) ELSE Repr(v)

-----------------------------------------------------------------------------
(* json.dumps, with the default ensure_ascii and separators *)

\* the two-character escapes: the letter after the backslash, and the character
ShortEscapes ==
    <<(<<Quote, Quote>>), (<<Backslash, Backslash>>), (<<Ord("b"), 8>>),
      (<<Ord("f"), Ord("\f")>>), (<<Ord("n"), Ord("\n")>>), (<<Ord("r"), Ord("\r")>>),
      (<<Ord("t"), Ord("\t")>>)>>

\* the characters that have a two-character escape
ShortEscaped == {ShortEscapes[i][2] : i \in 1..Len(ShortEscapes)}

HasShortEscape(c) == c \in ShortEscaped

EscapeOf(c) == ShortEscapes[CHOOSE i \in 1..Len(ShortEscapes) : ShortEscapes[i][2] = c][1]

\* json.dumps writes c as an escape: everything but the ASCII characters from
\* space to ~ other than the quote and the backslash
IsEscaped(c) == c < 32 \/ c > 126 \/ HasShortEscape(c)

\* the characters json.dumps writes as they are
PlainChars == {c \in 32..126 : ~IsEscaped(c)}

\* \uXXXX
UnicodeEscape(c) == S("\\u") \o Hex(c, 4)

\* one character of a JSON string literal; above U+FFFF a surrogate pair
EscapeChar(c) ==
    IF ~IsEscaped(c) THEN <<c>>
    ELSE IF HasShortEscape(c) THEN <<Backslash, EscapeOf(c)>>
    ELSE IF c < 65536 THEN UnicodeEscape(c)
    ELSE UnicodeEscape(55296 + ((c - 65536) \div 1024))
         \o UnicodeEscape(56320 + ((c - 65536) % 1024))

\* the characters lo..hi of s as a JSON string literal writes them, by halves
RECURSIVE EscapeRange(_, _, _)
EscapeRange(s, lo, hi) ==
    IF lo > hi THEN <<>>
    ELSE IF lo = hi THEN EscapeChar(s[lo])
    ELSE EscapeRange(s, lo, (lo + hi) \div 2) \o EscapeRange(s, ((lo + hi) \div 2) + 1, hi)

\* a str with nothing to escape is written as it is
EscapeStr(s) ==
    IF AllIn(s, PlainChars) THEN s ELSE EscapeRange(s, 1, Len(s))

Quoted(s) == S("\"") \o EscapeStr(s) \o S("\"")

\* float.__repr__, with the names JSON text uses for nan and the infinities
DumpFloat(repr) ==
    IF repr = S("nan") THEN S("NaN")
    ELSE IF repr = S("inf") THEN S("Infinity")
    ELSE IF repr = S("-inf") THEN S("-Infinity")
    ELSE repr

RECURSIVE Dumped(_), DumpItems(_, _, _), DumpMembers(_, _, _)
\* the JSON text of v, for a v that has one
Dumped(v) ==
    CASE v.t = "none"  -> S("null")
      [] v.t = "bool"  -> IF v.b THEN S("true") ELSE S("false")
      [] v.t = "str"   -> Quoted(v.s)
      [] v.t = "int"   -> v.numeral
      [] v.t = "float" -> DumpFloat(v.repr)
      [] v.t = "list"  -> S("[") \o DumpItems(v.items, 1, Len(v.items)) \o S("]")
      [] v.t = "dict"  -> S("{") \o DumpMembers(v.d, 1, Len(v.d)) \o S("}")

\* the items lo..hi with ", " between them, by halves
DumpItems(items, lo, hi) ==
    IF lo > hi THEN <<>>
    ELSE IF lo = hi THEN Dumped(items[lo])
    ELSE DumpItems(items, lo, (lo + hi) \div 2) \o S(", ")
         \o DumpItems(items, ((lo + hi) \div 2) + 1, hi)

\* the members lo..hi as "key": value with ", " between them, by halves
DumpMembers(pairs, lo, hi) ==
    IF lo > hi THEN <<>>
    ELSE IF lo = hi THEN Quoted(pairs[lo][1]) \o S(": ") \o Dumped(pairs[lo][2])
    ELSE DumpMembers(pairs, lo, (lo + hi) \div 2) \o S(", ")
         \o DumpMembers(pairs, ((lo + hi) \div 2) + 1, hi)

\* json.dumps(v), v made of None, bool, int, float, str, list and dict with str keys
json_dumps(v) == IF HasLongInt(v) THEN Raise("ValueError") ELSE Ok(Dumped(v))

-----------------------------------------------------------------------------
(* Natural numbers of any size, for float(text): the decimal digits of the  *)
(* number, least significant first; <<>> is zero                            *)

At(a, i) == IF i <= Len(a) THEN a[i] ELSE 0

\* a without its most significant digit when that is 0
Trim(a) == IF a # <<>> /\ a[Len(a)] = 0 THEN SubSeq(a, 1, Len(a) - 1) ELSE a

\* n zeros
Zeros(n) == <<>> \o [i \in 1..n |-> 0]

\* 2a
Double(a) ==
    <<>> \o [i \in 1..(Len(a) + (IF a # <<>> /\ a[Len(a)] >= 5 THEN 1 ELSE 0)) |->
                ((2 * At(a, i)) % 10) + (IF i > 1 /\ a[i - 1] >= 5 THEN 1 ELSE 0)]

\* a / 2, rounded down
Halve(a) ==
    Trim(<<>> \o [i \in 1..Len(a) |->
                     (a[i] \div 2) + (IF At(a, i + 1) % 2 = 1 THEN 5 ELSE 0)])

\* 5a, as 10a / 2
Times5(a) == Halve(<<0>> \o a)

\* a * 2^k, by halves of k
RECURSIVE DoubleTimes(_, _), DoubleMore(_, _)
DoubleTimes(a, k) ==
    IF k = 0 THEN a
    ELSE IF k = 1 THEN Double(a)
    ELSE DoubleMore(DoubleTimes(a, k \div 2), k - (k \div 2))

\* the same, a worked out first
DoubleMore(a, k) == IF Len(a) >= 0 THEN DoubleTimes(a, k) ELSE a

\* a * 5^k, in the same way
RECURSIVE Times5Times(_, _), Times5More(_, _)
Times5Times(a, k) ==
    IF k = 0 THEN a
    ELSE IF k = 1 THEN Times5(a)
    ELSE Times5More(Times5Times(a, k \div 2), k - (k \div 2))

\* the same, a worked out first
Times5More(a, k) == IF Len(a) >= 0 THEN Times5Times(a, k) ELSE a

Sign(n) == IF n > 0 THEN 1 ELSE IF n < 0 THEN -1 ELSE 0

\* the sign of a - b over the digits lo..hi, the more significant half first
RECURSIVE Compare(_, _, _, _), OrLower(_, _, _, _, _)
Compare(a, b, lo, hi) ==
    IF lo > hi THEN 0
    ELSE IF lo = hi THEN Sign(At(a, lo) - At(b, lo))
    ELSE OrLower(Compare(a, b, ((lo + hi) \div 2) + 1, hi), a, b, lo, (lo + hi) \div 2)

OrLower(high, a, b, lo, mid) == IF high # 0 THEN high ELSE Compare(a, b, lo, mid)

\* the sign of a - b
Cmp(a, b) == Compare(a, b, 1, IF Len(a) > Len(b) THEN Len(a) ELSE Len(b))

\* the two halves of a difference put together
SubJoin(low, high) == [d |-> low.d \o high.d, borrow |-> high.borrow]

\* the digits lo..hi of a - b and the borrow they pass on, the less significant
\* half first
RECURSIVE SubRange(_, _, _, _, _), SubHigh(_, _, _, _, _)
SubRange(a, b, lo, hi, borrow) ==
    IF lo = hi
    THEN [d |-> <<(At(a, lo) - At(b, lo) - borrow + 10) % 10>>,
          borrow |-> IF At(a, lo) - At(b, lo) - borrow < 0 THEN 1 ELSE 0]
    ELSE SubHigh(a, b, (lo + hi) \div 2, hi, SubRange(a, b, lo, (lo + hi) \div 2, borrow))

SubHigh(a, b, mid, hi, low) == SubJoin(low, SubRange(a, b, mid + 1, hi, low.borrow))

\* a - b, for a >= b
Sub(a, b) == IF a = <<>> THEN <<>> ELSE SubRange(a, b, 1, Len(a), 0).d

\* the number written by a text of decimal digits
BigOfText(text) == <<>> \o [i \in 1..Len(text) |-> DigitValue(text[Len(text) + 1 - i])]

\* the decimal digits of a number as text
TextOfBig(a) == <<>> \o [i \in 1..Len(a) |-> Ord("0") + a[Len(a) + 1 - i]]

-----------------------------------------------------------------------------
(* float(text): the double nearest to a decimal.  A double is the integer   *)
(* written by at most 53 bits, most significant first and starting with 1,  *)
(* times 2^exp; with fewer than 53 bits exp is -1074 (subnormal, or zero).  *)

Infinite == [inf |-> TRUE, bits |-> <<>>, exp |-> 0]

\* the double of bits and exponent; infinite above the largest exponent
Finite(bits, exp) ==
    IF bits # <<>> /\ exp + Len(bits) - 1 > 1023 THEN Infinite
    ELSE [inf |-> FALSE, bits |-> bits, exp |-> exp]

\* a lower bound of floor(t * log2(10))
Log2Pow10(t) ==
    IF t >= 0 THEN (t * 3321928) \div 1000000 ELSE 0 - (((0 - t) * 3321929) \div 1000000) - 1

\* the quotient n / d as a / b * 2^e
Scaled(n, d, e) ==
    [a |-> IF e < 0 THEN DoubleTimes(n, 0 - e) ELSE n,
     b |-> IF e > 0 THEN DoubleTimes(d, e) ELSE d,
     e |-> e]

\* the same quotient with e one higher
ScaledUp(sc) ==
    [a |-> IF sc.e < 0 THEN Halve(sc.a) ELSE sc.a,
     b |-> IF sc.e < 0 THEN sc.b ELSE Double(sc.b),
     e |-> sc.e + 1]

\* the quotient with 1 <= a / b < 2, from a scaling with 1 <= a / b
RECURSIVE Normalized(_)
Normalized(sc) ==
    IF Cmp(sc.a, Double(sc.b)) >= 0 THEN Normalized(ScaledUp(sc)) ELSE sc

\* the bits of two runs of Bits, one after the other
BitsJoin(first, rest) == [bits |-> first.bits \o rest.bits, a |-> rest.a]

\* the first p bits of a / b, for a / b < 2, and twice what is left of a; the
\* first half of the bits is worked out before the second
RECURSIVE Bits(_, _, _), BitsMore(_, _, _)
Bits(a, b, p) ==
    IF p <= 0 THEN [bits |-> <<>>, a |-> a]
    ELSE IF p = 1
         THEN (IF Cmp(a, b) >= 0
               THEN [bits |-> <<1>>, a |-> Double(Sub(a, b))]
               ELSE [bits |-> <<0>>, a |-> Double(a)])
    ELSE BitsMore(Bits(a, b, p \div 2), b, p - (p \div 2))

BitsMore(first, b, p) == BitsJoin(first, Bits(first.a, b, p))

\* n ones
Ones(n) == <<>> \o [i \in 1..n |-> 1]

\* the integer of bits, plus one
IncBits(bits) ==
    IF Trailing(bits, {1}) = Len(bits) THEN <<1>> \o Zeros(Len(bits))
    ELSE SubSeq(bits, 1, Len(bits) - Trailing(bits, {1}) - 1)
         \o <<1>> \o Zeros(Trailing(bits, {1}))

\* round to nearest, ties to even: r.a / b is twice the fraction left
RoundedBits(r, b) ==
    IF \/ Cmp(r.a, b) > 0
       \/ Cmp(r.a, b) = 0 /\ r.bits # <<>> /\ r.bits[Len(r.bits)] = 1
    THEN IncBits(r.bits)
    ELSE r.bits

\* 54 bits after rounding up are 1 and 53 zeros
Carried(bits, exp) ==
    IF Len(bits) > 53 THEN Finite(SubSeq(bits, 1, 53), exp + 1) ELSE Finite(bits, exp)

\* the double nearest to a / b * 2^e, 1 <= a / b < 2, whose last bit weighs 2^exp
RoundedTo(sc, exp) ==
    IF sc.e - exp + 1 < 0 THEN Finite(<<>>, exp)
    ELSE Carried(RoundedBits(Bits(sc.a, sc.b, sc.e - exp + 1), sc.b), exp)

Nearest(sc) == RoundedTo(sc, IF sc.e - 52 > -1074 THEN sc.e - 52 ELSE -1074)

\* the double nearest to n / d, n and d without leading zeros
Quotient(n, d) == Nearest(Normalized(Scaled(n, d, Log2Pow10(Len(n) - Len(d) - 1))))

\* the double nearest to digits * 10^q
Scientific(digits, q) ==
    IF q >= 0 THEN Quotient(Zeros(q) \o BigOfText(digits), <<1>>)
    ELSE Quotient(BigOfText(digits), Zeros(0 - q) \o <<1>>)

\* the double nearest to sig[1].sig[2..] * 10^exp10, sig[1] not 0
ToDouble(sig, exp10) ==
    IF exp10 > 400 THEN Infinite
    ELSE IF exp10 < -400 THEN Finite(<<>>, -1074)
    ELSE Scientific(sig, exp10 - (Len(sig) - 1))

-----------------------------------------------------------------------------
(* repr(x) for a float x: the shortest decimal that float() reads back as x *)

\* repr in fixed notation of sig[1].sig[2..] * 10^exp10
FixedNotation(sig, exp10) ==
    IF exp10 < 0
    THEN S("0.") \o Repeat(Ord("0"), (0 - exp10) - 1) \o sig
    ELSE IF Len(sig) <= exp10 + 1
         THEN sig \o Repeat(Ord("0"), exp10 + 1 - Len(sig)) \o S(".0")
         ELSE SubSeq(sig, 1, exp10 + 1) \o S(".") \o Drop(sig, exp10 + 1)

\* the same in exponent notation: d[.ddd]e+XX
ExponentNotation(sig, exp10) ==
    <<Head(sig)>>
    \o (IF Len(sig) > 1 THEN S(".") \o Tail(sig) ELSE <<>>)
    \o S("e") \o (IF exp10 < 0 THEN S("-") ELSE S("+"))
    \o ZeroPadded(IF exp10 < 0 THEN 0 - exp10 ELSE exp10, 2)

\* s without its trailing zeros
RStripZeros(s) == SubSeq(s, 1, Len(s) - Trailing(s, {Ord("0")}))

\* float_repr_style 'short': exponent notation below 1e-4 and from 1e16
Notation(sig, exp10) ==
    IF exp10 >= -4 /\ exp10 < 16
    THEN FixedNotation(RStripZeros(sig), exp10)
    ELSE ExponentNotation(RStripZeros(sig), exp10)

\* 2a + bit
DoublePlus(a, bit) ==
    IF bit = 0 THEN Double(a)
    ELSE IF a = <<>> THEN <<1>>
    ELSE [Double(a) EXCEPT ![1] = @ + 1]

\* the integer written by acc followed by bits, the first half of the bits
\* worked out before the second
RECURSIVE BigOfBits(_, _), BigOfMoreBits(_, _)
BigOfBits(bits, acc) ==
    IF bits = <<>> THEN acc
    ELSE IF Len(bits) = 1 THEN DoublePlus(acc, bits[1])
    ELSE BigOfMoreBits(SubSeq(bits, (Len(bits) \div 2) + 1, Len(bits)),
                       BigOfBits(SubSeq(bits, 1, Len(bits) \div 2), acc))

BigOfMoreBits(bits, acc) == IF Len(acc) >= 0 THEN BigOfBits(bits, acc) ELSE acc

\* the decimal text t, plus one in its last place
IncText(t) ==
    IF Trailing(t, {Ord("9")}) = Len(t) THEN S("1") \o Repeat(Ord("0"), Len(t))
    ELSE SubSeq(t, 1, Len(t) - Trailing(t, {Ord("9")}) - 1)
         \o <<t[Len(t) - Trailing(t, {Ord("9")})] + 1>>
         \o Repeat(Ord("0"), Trailing(t, {Ord("9")}))

\* t[1].t[2..] is rounded up at n digits: round to nearest, ties to even
RoundsUp(t, n) ==
    \/ t[n + 1] > Ord("5")
    \/ /\ t[n + 1] = Ord("5")
       /\ \/ \E i \in (n + 2)..Len(t) : t[i] # Ord("0")
          \/ DigitValue(t[n]) % 2 = 1

\* the n digits and the exponent of head[1].head[2..] * 10^exp10; head has one
\* digit more when rounding up carried into a new place
Digits(head, n, exp10) ==
    [sig |-> SubSeq(head, 1, n), exp |-> exp10 + (Len(head) - n)]

\* t[1].t[2..] * 10^exp10 rounded to n digits, n < Len(t)
RoundTo(t, n, exp10) ==
    Digits(IF RoundsUp(t, n) THEN IncText(SubSeq(t, 1, n)) ELSE SubSeq(t, 1, n), n, exp10)

\* the integer of bits, minus one
DecBits(bits) ==
    SubSeq(bits, 1, Len(bits) - Trailing(bits, {0}) - 1)
    \o <<0>> \o Ones(Trailing(bits, {0}))

\* the integer of bits times 2^exp, in units of 10^min(exp, 0)
Decimal(bits, exp) ==
    IF exp >= 0
    THEN DoubleMore(BigOfBits(bits, <<>>), exp)
    ELSE Times5More(BigOfBits(bits, <<>>), 0 - exp)

\* the digits of the exact decimal value of x, which is they * 10^min(x.exp, 0)
ExactDigits(x) == TextOfBig(Decimal(x.bits, x.exp))

\* x is a power of two with a closer neighbour below than above
NarrowBelow(x) ==
    /\ x.exp > -1074
    /\ \A i \in 2..Len(x.bits) : x.bits[i] = 0

\* the decimals that float() reads as x lie between Lower(x) and Upper(x),
\* halfway to the neighbours of x; both are in units of 10^min(x.exp - 2, 0)
Lower(x) ==
    Decimal(DecBits(x.bits) \o (IF NarrowBelow(x) THEN <<1, 1>> ELSE <<1, 0>>), x.exp - 2)

Upper(x) == Decimal(x.bits \o <<1, 0>>, x.exp - 2)

\* a decimal halfway is read as the neighbour whose last bit is 0
ReadsBounds(x) == x.bits[Len(x.bits)] = 0

\* the decimal c in units of 10^min(x.exp - 2, 0)
InUnits(c, x) ==
    Zeros(c.exp - (Len(c.sig) - 1) - (IF x.exp - 2 < 0 THEN x.exp - 2 ELSE 0))
    \o BigOfText(c.sig)

\* the number c is read as the double whose bounds are low and high
Between(c, low, high, closed) ==
    /\ Cmp(c, low) >= (IF closed THEN 0 ELSE 1)
    /\ Cmp(high, c) >= (IF closed THEN 0 ELSE 1)

\* float() reads as x the exact value t[1].t[2..] * 10^exp10 of x rounded to n
\* digits; low and high are the bounds of x
Reads(x, t, exp10, n, low, high) ==
    \/ n >= Len(t)
    \/ Between(InUnits(RoundTo(t, n, exp10), x), low, high, ReadsBounds(x))

\* the least number of digits with which x is read back; the bounds are
\* worked out first
ShortestLength(x, t, exp10, low, high) ==
    IF Len(low) < 0 \/ Len(high) < 0 THEN 0
    ELSE CHOOSE n \in 1..Len(t) :
             /\ Reads(x, t, exp10, n, low, high)
             /\ \A m \in 1..(n - 1) : ~Reads(x, t, exp10, m, low, high)

\* the shortest decimal that float() reads as x
Shortest(x, t, exp10, n) ==
    IF n >= Len(t) THEN Notation(t, exp10)
    ELSE Notation(RoundTo(t, n, exp10).sig, RoundTo(t, n, exp10).exp)

ShortestOf(x, t, exp10) ==
    Shortest(x, t, exp10, ShortestLength(x, t, exp10, Lower(x), Upper(x)))

\* repr(x) for a double x >= 0
ReprDouble(x) ==
    IF x.inf THEN S("inf")
    ELSE IF x.bits = <<>> THEN S("0.0")
    ELSE ShortestOf(x, ExactDigits(x),
                    Len(ExactDigits(x)) - 1 + (IF x.exp < 0 THEN x.exp ELSE 0))

\* repr(float(text)) for the decimal sig[1].sig[2..] * 10^exp10, sig without
\* leading or trailing zeros.  A decimal of at most 15 digits within the
\* range of the normal doubles is the shortest decimal of the double nearest
\* to it, so its repr has the digits of the text.
FloatText(neg, sig, exp10) ==
    (IF neg THEN S("-") ELSE <<>>)
    \o (IF sig = <<>> THEN S("0.0")
        ELSE IF Len(sig) <= 15 /\ exp10 >= -307 /\ exp10 <= 307 THEN Notation(sig, exp10)
        ELSE ReprDouble(ToDouble(sig, exp10)))

-----------------------------------------------------------------------------
(* json.loads: numbers *)

\* a decimal of n digits with an exponent of n + ExponentMargin or more, either
\* way, is an infinity or a zero whatever the exponent
ExponentMargin == 400

\* the value of a digit string, or limit when it is larger
RECURSIVE DigitsValue(_, _, _)
DigitsValue(s, acc, limit) ==
    IF s = <<>> THEN acc
    ELSE IF acc * 10 + DigitValue(Head(s)) >= limit THEN limit
    ELSE DigitsValue(Tail(s), acc * 10 + DigitValue(Head(s)), limit)

\* the exponent written by the text [eE][+-]?digits, 0 for no text, kept
\* within limit either way
ExponentValue(expt, limit) ==
    IF expt = <<>> THEN 0
    ELSE IF expt[2] = Ord("-") THEN 0 - DigitsValue(Drop(expt, 2), 0, limit)
    ELSE IF expt[2] = Ord("+") THEN DigitsValue(Drop(expt, 2), 0, limit)
    ELSE DigitsValue(Tail(expt), 0, limit)

\* the significant digits of a digit string: no leading or trailing zeros
Significant(digits) == RStripZeros(Drop(digits, RunOf(Ord("0"), digits)))

\* float(text) for integer part intd, fraction digits fracd and exponent text expt
FloatOf(neg, intd, fracd, expt) ==
    Float(FloatText(neg,
                    Significant(intd \o fracd),
                    (Len(intd) - 1 - RunOf(Ord("0"), intd \o fracd))
                        + ExponentValue(expt, Len(intd \o fracd) + ExponentMargin)))

\* int(text) for the digits intd: -0 is 0; ValueError past MaxStrDigits digits
IntOf(neg, intd) ==
    IF Len(intd) > MaxStrDigits THEN Raise("ValueError")
    ELSE Ok(PyInt(IF neg /\ intd # S("0") THEN S("-") \o intd ELSE intd))

-----------------------------------------------------------------------------
(* json.loads *)

\* a parser step: ok, the value read, the text left
Parsed(v, rest) == [ok |-> TRUE, exc |-> "none", v |-> v, rest |-> rest]
\* the step raised e
Failed(e) == [ok |-> FALSE, exc |-> e, v |-> None, rest |-> <<>>]
\* the text is not JSON
NoParse == Failed("JSONDecodeError")

\* the white space of JSON text
JsonWhitespace == {Ord(" "), Ord("\t"), Ord("\n"), Ord("\r")}

SkipWs(s) == Drop(s, Leading(s, JsonWhitespace))

\* the letter after a backslash is one of the two-character escapes or /
IsEscape(e) == e = Ord("/") \/ \E i \in 1..Len(ShortEscapes) : ShortEscapes[i][1] = e

Unescape(e) ==
    IF e = Ord("/") THEN e
    ELSE ShortEscapes[CHOOSE i \in 1..Len(ShortEscapes) : ShortEscapes[i][1] = e][2]

\* s starts with \uXXXX
IsUnicodeEscape(s) ==
    /\ Len(s) >= 6
    /\ s[1] = Backslash
    /\ s[2] = Ord("u")
    /\ \A i \in 3..6 : IsHexDigit(s[i])

\* the code unit of the \uXXXX that s starts with
EscapedUnit(s) == HexNumber(SubSeq(s, 3, 6), 0)

IsHighSurrogate(c) == c >= 55296 /\ c <= 56319

IsLowSurrogate(c) == c >= 56320 /\ c <= 57343

\* s starts with a high surrogate escape followed by a low surrogate escape
IsSurrogatePair(s) ==
    /\ IsUnicodeEscape(s)
    /\ IsHighSurrogate(EscapedUnit(s))
    /\ IsUnicodeEscape(Drop(s, 6))
    /\ IsLowSurrogate(EscapedUnit(Drop(s, 6)))

JoinSurrogates(hi, lo) == 65536 + ((hi - 55296) * 1024) + (lo - 56320)

\* the character at i of s follows a backslash that starts an escape: the
\* backslashes just before it are odd in number
FollowsEscape(s, i) ==
    /\ i > 1
    /\ s[i - 1] = Backslash
    /\ Trailing(SubSeq(s, 1, i - 1), {Backslash}) % 2 = 1

\* the backslash at i of s starts an escape
StartsEscape(s, i) == s[i] = Backslash /\ ~FollowsEscape(s, i)

\* the quote at i of s ends the string
EndsString(s, i) == s[i] = Quote /\ ~FollowsEscape(s, i)

\* the place of the quote that ends the string whose text s is, 0 for none
ClosingQuote(s) == Least({i \in Places(s, Quote) : EndsString(s, i)} \cup {Len(s) + 1})
                   % (Len(s) + 1)

\* the escape that starts at i of s is one json.loads reads
ValidEscape(s, i) ==
    /\ i < Len(s)
    /\ IF s[i + 1] = Ord("u") THEN IsUnicodeEscape(Drop(s, i - 1)) ELSE IsEscape(s[i + 1])

\* the text s between two quotes is a string body json.loads reads: no
\* character below U+0020, no escape other than the known ones
ValidChars(s) ==
    /\ NoneIn(s, 0..31)
    /\ \A i \in Places(s, Backslash) : StartsEscape(s, i) => ValidEscape(s, i)

\* a \uXXXX starts at i of s
UnicodeEscapeAt(s, i) == i >= 1 /\ i < Len(s) /\ StartsEscape(s, i) /\ s[i + 1] = Ord("u")

\* the character at i of s belongs to an escape that starts before i
InsideEscape(s, i) ==
    \/ FollowsEscape(s, i)
    \/ \E k \in (i - 5)..(i - 2) : UnicodeEscapeAt(s, k)

\* the \uXXXX at i of s is the low half of a surrogate pair
LowOfPair(s, i) ==
    /\ IsLowSurrogate(EscapedUnit(Drop(s, i - 1)))
    /\ UnicodeEscapeAt(s, i - 6)
    /\ IsHighSurrogate(EscapedUnit(Drop(s, i - 7)))

\* what the escape that starts at i of s stands for
Unescaped(s, i) ==
    IF s[i + 1] # Ord("u") THEN <<Unescape(s[i + 1])>>
    ELSE IF LowOfPair(s, i) THEN <<>>
    ELSE IF IsSurrogatePair(Drop(s, i - 1))
         THEN <<JoinSurrogates(EscapedUnit(Drop(s, i - 1)), EscapedUnit(Drop(s, i + 5)))>>
    ELSE <<EscapedUnit(Drop(s, i - 1))>>

\* what the character at i of the string body s gives the str
Decoded(s, i) ==
    IF StartsEscape(s, i) THEN Unescaped(s, i)
    ELSE IF InsideEscape(s, i) THEN <<>>
    ELSE <<s[i]>>

\* the str of the characters lo..hi of the string body s, by halves
RECURSIVE DecodedRange(_, _, _)
DecodedRange(s, lo, hi) ==
    IF lo > hi THEN <<>>
    ELSE IF lo = hi THEN Decoded(s, lo)
    ELSE DecodedRange(s, lo, (lo + hi) \div 2) \o DecodedRange(s, ((lo + hi) \div 2) + 1, hi)

\* the str of the string body s: a body without a backslash is the str
DecodedBody(s) ==
    IF Places(s, Backslash) = {} THEN s ELSE DecodedRange(s, 1, Len(s))

\* the string whose text follows an opening quote and ends at the quote at q
StringUpTo(s, q) ==
    IF q = 0 \/ ~ValidChars(SubSeq(s, 1, q - 1)) THEN NoParse
    ELSE Parsed(Str(DecodedBody(SubSeq(s, 1, q - 1))), Drop(s, q))

\* the string whose text follows an opening quote, up to the closing one
ParseChars(s) == StringUpTo(s, ClosingQuote(s))

\* the length of the integer part that a starts with: 0, or a digit run
IntLen(a) == IF Head(a) = Ord("0") THEN 1 ELSE DigitRun(a)

\* the length of the fraction .digits that b starts with, 0 for none
FracLen(b) ==
    IF Len(b) >= 2 /\ b[1] = Ord(".") /\ IsDigit(b[2]) THEN 1 + DigitRun(Tail(b)) ELSE 0

\* the length of the exponent [eE][+-]?digits that c starts with, 0 for none
ExpLen(c) ==
    IF c = <<>> \/ c[1] \notin {Ord("e"), Ord("E")} THEN 0
    ELSE IF Len(c) >= 2 /\ c[2] \in {Ord("+"), Ord("-")}
         THEN (IF DigitRun(Drop(c, 2)) > 0 THEN 2 + DigitRun(Drop(c, 2)) ELSE 0)
    ELSE IF DigitRun(Tail(c)) > 0 THEN 1 + DigitRun(Tail(c)) ELSE 0

\* the number of the text a after its sign: ni, nf, ne are the lengths of the
\* integer part, the fraction and the exponent; an int when it has neither
NumberOf(neg, a, ni, nf, ne) ==
    IF nf = 0 /\ ne = 0
    THEN IF IntOf(neg, SubSeq(a, 1, ni)).exc # "none"
         THEN Failed(IntOf(neg, SubSeq(a, 1, ni)).exc)
         ELSE Parsed(IntOf(neg, SubSeq(a, 1, ni)).v, Drop(a, ni))
    ELSE Parsed(FloatOf(neg, SubSeq(a, 1, ni), SubSeq(a, ni + 2, ni + nf),
                        SubSeq(a, ni + nf + 1, ni + nf + ne)),
                Drop(a, ni + nf + ne))

NumberExp(neg, a, ni, nf) == NumberOf(neg, a, ni, nf, ExpLen(Drop(a, ni + nf)))

NumberFrac(neg, a, ni) == NumberExp(neg, a, ni, FracLen(Drop(a, ni)))

\* -?(0|[1-9][0-9]*)(\.[0-9]+)?([eE][-+]?[0-9]+)? at the start of a, sign read
NumberAfterSign(neg, a) ==
    IF a = <<>> \/ ~IsDigit(Head(a)) THEN NoParse ELSE NumberFrac(neg, a, IntLen(a))

\* a number at the start of s
ParseNumber(s) ==
    IF Head(s) = Ord("-") THEN NumberAfterSign(TRUE, Tail(s)) ELSE NumberAfterSign(FALSE, s)

\* the constants of JSON text, -Infinity aside
JsonConstants ==
    <<(<<S("null"), None>>), (<<S("true"), Bool(TRUE)>>), (<<S("false"), Bool(FALSE)>>),
      (<<S("NaN"), Float(S("nan"))>>), (<<S("Infinity"), Float(S("inf"))>>)>>

IsConstantAt(s) == \E i \in 1..Len(JsonConstants) : StartsWith(s, JsonConstants[i][1])

ConstantAt(s) ==
    LET c == JsonConstants[CHOOSE i \in 1..Len(JsonConstants) :
                               StartsWith(s, JsonConstants[i][1])]
    IN  Parsed(c[2], Drop(s, Len(c[1])))

RECURSIVE ParseValue(_), ParseItems(_, _), AfterItem(_, _),
          ParseMembers(_, _), AfterKey(_, _), AfterMember(_, _, _)
\* one JSON value at the start of text, white space skipped
ParseValue(text) ==
    LET s == SkipWs(text) IN
    IF s = <<>> THEN NoParse
    ELSE IF Head(s) = Quote THEN ParseChars(Tail(s))
    ELSE IF Head(s) = Ord("[")
         THEN LET t == SkipWs(Tail(s))
              IN  IF t # <<>> /\ Head(t) = Ord("]")
                  THEN Parsed(List(<<>>), Tail(t))
                  ELSE ParseItems(t, <<>>)
    ELSE IF Head(s) = Ord("{")
         THEN LET t == SkipWs(Tail(s))
              IN  IF t # <<>> /\ Head(t) = Ord("}")
                  THEN Parsed(Dict(<<>>), Tail(t))
                  ELSE ParseMembers(t, <<>>)
    ELSE IF IsConstantAt(s) THEN ConstantAt(s)
    ELSE IF StartsWith(s, S("-Infinity"))
         THEN Parsed(Float(S("-inf")), Drop(s, Len(S("-Infinity"))))
    ELSE IF Head(s) = Ord("-") \/ IsDigit(Head(s)) THEN ParseNumber(s)
    ELSE NoParse

\* value ("," value)* "]"
ParseItems(text, acc) ==
    IF Len(acc) >= 0 THEN AfterItem(ParseValue(text), acc) ELSE NoParse

\* after the item r: "]" ends the list, "," goes on
AfterItem(r, acc) ==
    LET t == SkipWs(r.rest)
    IN  IF ~r.ok THEN r
        ELSE IF t = <<>> THEN NoParse
        ELSE IF Head(t) = Ord("]") THEN Parsed(List(Append(acc, r.v)), Tail(t))
        ELSE IF Head(t) = Ord(",") THEN ParseItems(Tail(t), Append(acc, r.v))
        ELSE NoParse

\* string ":" value ("," string ":" value)* "}"
ParseMembers(text, acc) ==
    LET s == SkipWs(text) IN
    IF Len(acc) < 0 \/ s = <<>> \/ Head(s) # Quote THEN NoParse
    ELSE AfterKey(ParseChars(Tail(s)), acc)

\* after the key k: ":" and the member's value
AfterKey(k, acc) ==
    LET c == SkipWs(k.rest)
    IN  IF ~k.ok THEN k
        ELSE IF c = <<>> \/ Head(c) # Ord(":") THEN NoParse
        ELSE AfterMember(k.v.s, ParseValue(Tail(c)), acc)

\* after the member key: r; "}" ends the object, "," goes on; a key read twice
\* keeps its first place and its last value
AfterMember(key, r, acc) ==
    LET t == SkipWs(r.rest)
    IN  IF ~r.ok THEN r
        ELSE IF t = <<>> THEN NoParse
        ELSE IF Head(t) = Ord("}") THEN Parsed(Dict(DictSet(acc, key, r.v)), Tail(t))
        ELSE IF Head(t) = Ord(",") THEN ParseMembers(Tail(t), DictSet(acc, key, r.v))
        ELSE NoParse

\* r read one JSON text and nothing but white space follows it
WholeText(r) ==
    IF ~r.ok THEN Raise(r.exc)
    ELSE IF SkipWs(r.rest) = <<>> THEN Ok(r.v)
    ELSE Raise("JSONDecodeError")

\* json.loads(x): TypeError unless x is a str, JSONDecodeError unless it is one
\* JSON text, ValueError at an int of more than MaxStrDigits digits
json_loads(x) ==
    IF x.t # "str" THEN Raise("TypeError") ELSE WholeText(ParseValue(x.s))

-----------------------------------------------------------------------------
(* Module-level code, run once at import *)

\* os.getenv(name, default)
getenv(name, default) ==
    IF HasKey(environ, name) THEN Lookup(environ, name) ELSE default

\* the code points for which str.isspace() holds
PyWhitespace ==
    (9..13) \cup (28..32) \cup {133, 160, 5760} \cup (8192..8202)
    \cup {8232, 8233, 8239, 8287, 12288}

IsSpace(c) == c \in PyWhitespace

LStrip(s) == Drop(s, Leading(s, PyWhitespace))

RStrip(s) == SubSeq(s, 1, Len(s) - Trailing(s, PyWhitespace))

\* str.strip()
Strip(s) == RStrip(LStrip(s))

\* stateless module: ENV_PREFIX = os.getenv("ENV_PREFIX", "").strip()
ENV_PREFIX == Strip(getenv(S("ENV_PREFIX"), Str(<<>>)).s)

\* variant of domain_prefix built from the environment value as found
domain_prefix_unstripped ==
    LET raw == getenv(S("ENV_PREFIX"), Str(<<>>)).s
    IN  IF raw # <<>> THEN raw \o S(".") ELSE <<>>

\* stateless module: the prefix with a dot, or nothing
domain_prefix == IF ENV_PREFIX # <<>> THEN ENV_PREFIX \o S(".") ELSE <<>>

\* the module-level code runs before invocation 1
ImportTime == 0

\* stateful module: SENDGRID_API_KEY = os.getenv("SENDGRID_API_KEY"), read at import
SENDGRID_API_KEY ==
    [value |-> getenv(S("SENDGRID_API_KEY"), None), read_in |-> ImportTime]

-----------------------------------------------------------------------------
(* datetime *)

DateTime(year, month, day, hour, minute, second, microsecond) ==
    [t |-> "datetime", year |-> year, month |-> month, day |-> day, hour |-> hour,
     minute |-> minute, second |-> second, microsecond |-> microsecond]

IsLeap(year) == year % 4 = 0 /\ (year % 100 # 0 \/ year % 400 = 0)

DaysInMonth(year, month) ==
    IF month = 2 THEN (IF IsLeap(year) THEN 29 ELSE 28)
    ELSE IF month \in {4, 6, 9, 11} THEN 30
    ELSE 31

\* the same time of day on the day after
NextDay(dt) ==
    IF dt.day < DaysInMonth(dt.year, dt.month) THEN [dt EXCEPT !.day = dt.day + 1]
    ELSE IF dt.month < 12 THEN [dt EXCEPT !.day = 1, !.month = dt.month + 1]
    ELSE [dt EXCEPT !.day = 1, !.month = 1, !.year = dt.year + 1]

\* dt + timedelta(minutes=k), for k below a day; OverflowError past year 9999
AddMinutes(dt, k) ==
    LET total == (dt.hour * 60) + dt.minute + k
        moved == [dt EXCEPT !.hour = (total \div 60) % 24, !.minute = total % 60]
    IN  IF total < 24 * 60 THEN Ok(moved)
        ELSE IF NextDay(moved).year > 9999 THEN Raise("OverflowError")
        ELSE Ok(NextDay(moved))

\* datetime.isoformat(): YYYY-MM-DDTHH:MM:SS, and .ffffff unless it is zero
isoformat(dt) ==
    ZeroPadded(dt.year, 4) \o S("-") \o ZeroPadded(dt.month, 2) \o S("-")
    \o ZeroPadded(dt.day, 2) \o S("T") \o ZeroPadded(dt.hour, 2) \o S(":")
    \o ZeroPadded(dt.minute, 2) \o S(":") \o ZeroPadded(dt.second, 2)
    \o (IF dt.microsecond # 0 THEN S(".") \o ZeroPadded(dt.microsecond, 6) ELSE <<>>)

-----------------------------------------------------------------------------
(* Responses *)

\* {"statusCode": code, "body": json.dumps({"message": text})}
Returned(code, text) ==
    [exc |-> "none", statusCode |-> code,
     body |-> json_dumps(Dict(<< <<S("message"), Str(S(text))>> >>)).v]

\* an exception left lambda_handler
Escaped(e) == [exc |-> e]

\* lambda_handler has not returned yet
Pending == [exc |-> "pending"]

\* the program constant of the success test: response.status_code != 202
Accepted == 202

\* timedelta(minutes=2)
ExpiryMinutes == 2

-----------------------------------------------------------------------------
(* Parsing the event *)

\* r[k], where r is the result of the expression subscripted
Subscript(r, k) == IF r.exc # "none" THEN r ELSE GetItem(r.v, k)

\* r[0]
First(r) == IF r.exc # "none" THEN r ELSE GetFirst(r.v)

\* json.loads(r)
Loads(r) == IF r.exc # "none" THEN r ELSE json_loads(r.v)

\* event['Records'][0]['Sns']['Message']
SnsMessage(ev) ==
    Subscript(Subscript(First(GetItem(ev, S("Records"))), S("Sns")), S("Message"))

\* json.loads(event['Records'][0]['Sns']['Message'])
SnsPayload(ev) == Loads(SnsMessage(ev))

\* stateless: the SNS message decoded when 'Records' in event, else the event
PayloadStateless(ev) ==
    IF Contains(ev, S("Records")).exc # "none" THEN Contains(ev, S("Records"))
    ELSE IF Contains(ev, S("Records")).v THEN SnsPayload(ev)
    ELSE Ok(ev)

\* stateless: payload.get("email"), payload.get("verification_token") and the
\* test `not email or not verification_token`
FieldsStateless(payload) ==
    IF payload.exc # "none" THEN payload
    ELSE IF DictGet(payload.v, S("email")).exc # "none"
         THEN DictGet(payload.v, S("email"))
    ELSE IF \/ ~Truthy(DictGet(payload.v, S("email")).v)
            \/ ~Truthy(DictGet(payload.v, S("verification_token")).v)
         THEN Raise("ValueError")
    ELSE Ok([email |-> DictGet(payload.v, S("email")).v,
             verification_token |-> DictGet(payload.v, S("verification_token")).v,
             user_id |-> None])

\* stateless: the body of the try block that parses the event
ParseStateless(ev) == FieldsStateless(PayloadStateless(ev))

\* stateful: payload["email"] and payload["user_id"]
FieldsStateful(payload) ==
    IF payload.exc # "none" THEN payload
    ELSE IF GetItem(payload.v, S("email")).exc # "none"
         THEN GetItem(payload.v, S("email"))
    ELSE IF GetItem(payload.v, S("user_id")).exc # "none"
         THEN GetItem(payload.v, S("user_id"))
    ELSE Ok([email |-> GetItem(payload.v, S("email")).v,
             verification_token |-> None,
             user_id |-> GetItem(payload.v, S("user_id")).v])

\* stateful: the body of the try block that parses the event
ParseStateful(ev) == FieldsStateful(SnsPayload(ev))

\* stateless: except Exception
CaughtStateless(e) == TRUE

\* stateful: except (KeyError, json.JSONDecodeError)
CaughtStateful(e) == e \in {"KeyError", "JSONDecodeError"}

-----------------------------------------------------------------------------
(* Building the link *)

\* stateless: f"http://{domain_prefix}cloudjourney.me/verify?token={verification_token}"
\* and, for the log line that follows, f"...{email}"
LinkStateless(token, email) ==
    IF Format(token).exc # "none" THEN Format(token)
    ELSE IF Format(email).exc # "none" THEN Format(email)
    ELSE Ok(S("http://") \o domain_prefix \o S("cloudjourney.me/verify?token=")
            \o Format(token).v)

\* stateful: f"{user_id}:{expiration_time.isoformat()}"
TokenStateful(user_id, expiration_time) ==
    IF Format(user_id).exc # "none" THEN Format(user_id)
    ELSE Ok(Format(user_id).v \o S(":") \o isoformat(expiration_time))

\* stateful: f"https://yourdomain.com/verify?token={verification_token}"
LinkStateful(token) == S("https://yourdomain.com/verify?token=") \o token

\* stateless: the List-Unsubscribe header value
UnsubscribeHeader ==
    S("<mailto:unsubscribe@em7116.cloudjourney.me>, <https://")
    \o domain_prefix \o S("cloudjourney.me/unsubscribe>")

-----------------------------------------------------------------------------
(* Inputs: environments, events, outcomes of the external collaborators *)

Field(name, value) == <<S(name), value>>

EnvWith(name, text) == Dict(<<Field(name, Str(S(text)))>>)

Environs(v) ==
    IF v = "stateless"
    THEN {Dict(<<>>), EnvWith("ENV_PREFIX", " "), EnvWith("ENV_PREFIX", " dev\r\n")}
    ELSE {Dict(<<>>), EnvWith("SENDGRID_API_KEY", "SG.env")}

EmailA == Str(S("a@example.com"))
EmailQ == Str(S("q\"@example.com"))
TokenA == Str(S("abc123"))
TokenB == Str(S("t\\k"))

\* payload objects a publisher or a direct caller may pass
Payloads ==
    {Dict(<<Field("email", EmailA), Field("verification_token", TokenA)>>),
     Dict(<<Field("email", EmailA), Field("user_id", Num(7))>>),
     Dict(<<Field("email", EmailQ), Field("verification_token", TokenB),
            Field("user_id", Str(S("u1")))>>),
     Dict(<<Field("verification_token", TokenA), Field("user_id", Bool(TRUE))>>),
     Dict(<<Field("email", Str(<<>>)), Field("verification_token", TokenA),
            Field("user_id", None)>>),
     Dict(<<Field("email", EmailA), Field("verification_token", Str(<<>>)),
            Field("user_id", Num(0))>>),
     Dict(<<Field("email", EmailA),
            Field("verification_token", List(<<Str(S("x'")), Float(S("1.5"))>>)),
            Field("user_id", Num(-3))>>),
     Dict(<<Field("Records", List(<<>>)), Field("email", EmailA),
            Field("verification_token", TokenA)>>),
     Dict(<<>>)}

\* {"Records": [{"Sns": {"Message": message}}]}
SnsEvent(message) ==
    Dict(<<Field("Records",
                 List(<<Dict(<<Field("Sns", Dict(<<Field("Message", message)>>))>>)>>))>>)

\* the wrapped form of payload p: its JSON text as the SNS message
Wrapped(p) == SnsEvent(Str(json_dumps(p).v))

\* events that carry no payload object
MalformedEvents ==
    {Dict(<<Field("Records", List(<<>>))>>),
     Dict(<<Field("Records", List(<<Dict(<<>>)>>))>>),
     SnsEvent(None),
     SnsEvent(Str(S("{\"email\""))),
     SnsEvent(Str(S("[\"email\"]"))),
     SnsEvent(Str(S("null"))),
     SnsEvent(Str(S("1.5"))),
     SnsEvent(Str(S("\r\n true "))),
     Str(S("xRecordsy"))}

\* an int of one digit more than str() and int() convert
LongInt == PyInt(Repeat(Ord("9"), MaxStrDigits + 1))

\* events that hold such an int: as a Python object, and in the message text
LongIntEvents ==
    {Dict(<<Field("email", EmailA), Field("verification_token", TokenA),
            Field("user_id", LongInt)>>),
     SnsEvent(Str(S("{\"email\": \"a@example.com\", \"user_id\": ")
                  \o LongInt.numeral \o S("}")))}

Events ==
    Payloads \cup {Wrapped(p) : p \in Payloads} \cup MalformedEvents \cup LongIntEvents

Outcome(who, raised, value) == [who |-> who, raised |-> raised, value |-> value]

\* boto3.client('secretsmanager'): raises (no region configured, say) or returns
ClientOutcomes ==
    {Outcome("boto3.client", TRUE, None), Outcome("boto3.client", FALSE, None)}

\* get_secret_value: raises, or answers with or without a SecretString
SecretOutcomes ==
    {Outcome("get_secret_value", TRUE, None),
     Outcome("get_secret_value", FALSE, Dict(<<Field("SecretBinary", Str(S("b64")))>>)),
     Outcome("get_secret_value", FALSE, Dict(<<Field("SecretString", Str(S("SG.v1")))>>))}

\* sg.send: raises, or answers with a status code
SendOutcomes ==
    {Outcome("send", TRUE, None)}
    \cup {Outcome("send", FALSE, Num(c)) : c \in {Accepted, 200}}

\* what send_verification_email calls inside its try block, in order
SendStepsStateless == <<"Mail", "Header", "add_header", "SendGridAPIClient", "send">>
SendStepsStateful == <<"Mail", "SendGridAPIClient", "send">>

\* the first n of steps returned
Built(steps, n) == <<>> \o [i \in 1..n |-> Outcome(steps[i], FALSE, None)]

\* the run got as far as calling step
Reached(run, step) == run[Len(run)].who = step

\* the ways the try block can go: a step before sg.send raises, or they all
\* return and sg.send raises or answers
SendRuns(steps) ==
    {Append(Built(steps, k - 1), Outcome(steps[k], TRUE, None)) : k \in 1..(Len(steps) - 1)}
    \cup {Append(Built(steps, Len(steps) - 1), out) : out \in SendOutcomes}

\* datetime.utcnow()
Clock ==
    {DateTime(2025, 12, 31, 23, 59, 59, 0)}

-----------------------------------------------------------------------------
(* The state after import *)

NoLocals ==
    [sendgrid_api_key |-> [value |-> None, read_in |-> ImportTime],
     email |-> None, verification_token |-> None, user_id |-> None,
     verification_link |-> <<>>, expiration_time |-> None]

NoPrev == [valid |-> FALSE]

Init ==
    /\ variant \in {"stateless", "stateful"}
    /\ environ \in Environs(variant)
    /\ inv = 0
    /\ pc = "idle"
    /\ event = None
    /\ locals = NoLocals
    /\ oracle = <<>>
    /\ calls = <<>>
    /\ conn_open = FALSE
    /\ response = Pending
    /\ prev = NoPrev

Call(op, args) == [op |-> op, args |-> args]

\* return from lambda_handler
Return(resp) ==
    /\ response' = resp
    /\ pc' = "done"

-----------------------------------------------------------------------------
(* lambda_handler, step by step *)

\* logger.info(f"Received event: {json.dumps(event)}"): the text goes to the
\* log; what the handler is left with is whether json.dumps raised
LogEvent(ev) == IF HasLongInt(ev) THEN json_dumps(ev) ELSE Ok(None)

\* the first statement is outside every try block
AfterLogEvent(logged) ==
    IF logged.exc # "none"
    THEN Return(Escaped(logged.exc))
    ELSE /\ pc' = IF variant = "stateless" THEN "get_secret" ELSE "parse"
         /\ response' = Pending

\* the runtime calls lambda_handler(event, context)
Invoke ==
    /\ pc \in {"idle", "done"}
    /\ inv < MaxInvocations
    /\ \E ev \in Events :
         /\ event' = ev
         /\ AfterLogEvent(LogEvent(ev))
    /\ inv' = inv + 1
    /\ locals' = NoLocals
    /\ oracle' = <<>>
    /\ calls' = <<>>
    /\ conn_open' = FALSE
    /\ prev' = IF pc = "done"
               THEN [valid |-> TRUE, event |-> event, oracle |-> oracle,
                     calls |-> calls, response |-> response]
               ELSE prev
    /\ UNCHANGED <<variant, environ>>

\* variant of SecretString that reads the key with .get
SecretStringWithGet(out) ==
    IF out.raised THEN Raise("ClientError") ELSE DictGet(out.value, S("SecretString"))

\* stateless: secret_response['SecretString'] inside the try block
SecretString(out) ==
    IF out.raised THEN Raise("ClientError") ELSE GetItem(out.value, S("SecretString"))

\* stateless: what follows the try block that fetches the credential
AfterGetSecret(r) ==
    IF r.exc # "none"
    THEN /\ Return(Returned(500, "Failed to retrieve SendGrid API Key"))
         /\ UNCHANGED locals
    ELSE /\ locals' = [locals EXCEPT
                         !.sendgrid_api_key = [value |-> r.v, read_in |-> inv]]
         /\ pc' = "parse"
         /\ UNCHANGED response

\* stateless: boto3.client('secretsmanager') is outside the try block: what it
\* raises leaves lambda_handler before any lookup
ClientRaised(client) ==
    /\ oracle' = Append(oracle, client)
    /\ Return(Escaped("NoRegionError"))
    /\ UNCHANGED <<calls, locals>>

\* stateless: the client is made and the credential is fetched first, before
\* the event is looked at
GetSecret ==
    /\ variant = "stateless"
    /\ pc = "get_secret"
    /\ \E client \in ClientOutcomes :
         IF client.raised
         THEN ClientRaised(client)
         ELSE \E out \in SecretOutcomes :
                /\ oracle' = oracle \o <<client, out>>
                /\ calls' = Append(calls, Call("get_secret_value",
                                               [SecretId |-> S("sendgrid_api_key_secret")]))
                /\ AfterGetSecret(SecretString(out))
    /\ UNCHANGED <<variant, environ, inv, event, conn_open, prev>>

\* stateless: what follows the try block that parses the event
AfterParseStateless(r) ==
    IF r.exc = "none"
    THEN /\ locals' = [locals EXCEPT !.email = r.v.email,
                                      !.verification_token = r.v.verification_token]
         /\ pc' = "link"
         /\ UNCHANGED response
    ELSE /\ IF CaughtStateless(r.exc)
            THEN Return(Returned(400, "Invalid event format"))
            ELSE Return(Escaped(r.exc))
         /\ UNCHANGED locals

\* stateless: parse the event; every exception becomes a 400
ParseEventStateless ==
    /\ variant = "stateless"
    /\ pc = "parse"
    /\ AfterParseStateless(ParseStateless(event))
    /\ UNCHANGED <<variant, environ, inv, event, oracle, calls, conn_open, prev>>

\* stateful: what follows the try block that parses the event
AfterParseStateful(r) ==
    IF r.exc = "none"
    THEN /\ locals' = [locals EXCEPT !.email = r.v.email, !.user_id = r.v.user_id]
         /\ pc' = "link"
         /\ UNCHANGED response
    ELSE /\ IF CaughtStateful(r.exc)
            THEN Return(Returned(400, "Invalid SNS message"))
            ELSE Return(Escaped(r.exc))
         /\ UNCHANGED locals

\* stateful: parse the event; KeyError and JSONDecodeError become a 400
ParseEventStateful ==
    /\ variant = "stateful"
    /\ pc = "parse"
    /\ AfterParseStateful(ParseStateful(event))
    /\ UNCHANGED <<variant, environ, inv, event, oracle, calls, conn_open, prev>>

\* stateless: what follows the try block that constructs the link
AfterLinkStateless(link) ==
    IF link.exc # "none"
    THEN /\ Return(Returned(500, "Failed to construct verification link"))
         /\ UNCHANGED locals
    ELSE /\ locals' = [locals EXCEPT !.verification_link = link.v]
         /\ pc' = "send"
         /\ UNCHANGED response

\* stateless: construct the verification link
BuildLinkStateless ==
    /\ variant = "stateless"
    /\ pc = "link"
    /\ AfterLinkStateless(LinkStateless(locals.verification_token, locals.email))
    /\ UNCHANGED <<variant, environ, inv, event, oracle, calls, conn_open, prev>>

\* stateful: the token and the link from user_id and the expiry; the addition
\* and the f-strings are outside every try block
AfterExpiry(expiration_time) ==
    IF expiration_time.exc # "none"
    THEN /\ Return(Escaped(expiration_time.exc))
         /\ UNCHANGED locals
    ELSE IF TokenStateful(locals.user_id, expiration_time.v).exc # "none"
    THEN /\ Return(Escaped(TokenStateful(locals.user_id, expiration_time.v).exc))
         /\ UNCHANGED locals
    ELSE /\ locals' = [locals EXCEPT
                         !.expiration_time = expiration_time.v,
                         !.verification_token =
                             Str(TokenStateful(locals.user_id, expiration_time.v).v),
                         !.verification_link =
                             LinkStateful(TokenStateful(locals.user_id, expiration_time.v).v)]
         /\ pc' = "send"
         /\ UNCHANGED response

\* stateful: expiration_time = datetime.utcnow() + timedelta(minutes=2), then
\* the token and the link
BuildLinkStateful ==
    /\ variant = "stateful"
    /\ pc = "link"
    /\ \E now \in Clock :
         /\ oracle' = Append(oracle, Outcome("utcnow", FALSE, now))
         /\ AfterExpiry(AddMinutes(now, ExpiryMinutes))
    /\ UNCHANGED <<variant, environ, inv, event, calls, conn_open, prev>>

-----------------------------------------------------------------------------
(* Sending the email *)

\* stateless send_verification_email, out the outcome of the last call its try
\* block made: True only for a response of sg.send with status 202
send_verification_email_stateless(out) ==
    IF out.raised THEN FALSE
    ELSE IF out.value # Num(Accepted) THEN FALSE
    ELSE TRUE

\* stateful send_verification_email, out the outcome of the last call its try
\* block made: True whenever nothing raised
send_verification_email_stateful(out) ==
    IF out.raised THEN FALSE ELSE TRUE

\* stateless: the key handed to SendGridAPIClient is the local fetched above
CredentialStateless == locals.sendgrid_api_key

\* stateful: the key handed to SendGridAPIClient is the module global
CredentialStateful == SENDGRID_API_KEY

\* sg.send(message): the message Mail(...) and the header made, sent by the
\* client SendGridAPIClient(key) made
SendCall(from_email, credential, headers) ==
    Call("send", [to |-> locals.email, link |-> locals.verification_link,
                  from_email |-> S(from_email), headers |-> headers,
                  api_key |-> credential.value, key_read_in |-> credential.read_in])

\* stateless: what lambda_handler returns after send_verification_email
AfterSendStateless(email_sent) ==
    IF ~email_sent
    THEN Return(Returned(500, "Failed to send verification email"))
    ELSE Return(Returned(200, "Verification email sent successfully"))

\* stateless: send the email and return
SendStateless ==
    /\ variant = "stateless"
    /\ pc = "send"
    /\ \E run \in SendRuns(SendStepsStateless) :
         /\ oracle' = oracle \o run
         /\ calls' = IF Reached(run, "send")
                      THEN Append(calls, SendCall("noreply@em7116.cloudjourney.me",
                                                  CredentialStateless, UnsubscribeHeader))
                      ELSE calls
         /\ AfterSendStateless(send_verification_email_stateless(run[Len(run)]))
    /\ UNCHANGED <<variant, environ, inv, event, locals, conn_open, prev>>

\* variant of AfterSendStateful that does not test email_sent
AfterSendStatefulUnchecked(email_sent) ==
    /\ pc' = "connect"
    /\ UNCHANGED response

\* stateful: return 500 after a failed send, else go on to the database
AfterSendStateful(email_sent) ==
    IF ~email_sent
    THEN Return(Returned(500, "Failed to send verification email"))
    ELSE /\ pc' = "connect"
         /\ UNCHANGED response

\* stateful: send the email
SendStateful ==
    /\ variant = "stateful"
    /\ pc = "send"
    /\ \E run \in SendRuns(SendStepsStateful) :
         /\ oracle' = oracle \o run
         /\ calls' = IF Reached(run, "send")
                      THEN Append(calls, SendCall("noreply@yourdomain.com",
                                                  CredentialStateful, <<>>))
                      ELSE calls
         /\ AfterSendStateful(send_verification_email_stateful(run[Len(run)]))
    /\ UNCHANGED <<variant, environ, inv, event, locals, conn_open, prev>>

-----------------------------------------------------------------------------
(* Logging the email to the database (stateful) *)

\* the statements of the try block, in order
DbSteps == <<"connect", "cursor", "execute", "commit", "cursor_close", "conn_close">>

DbIndex(step) == CHOOSE i \in 1..Len(DbSteps) : DbSteps[i] = step

\* the parameters of the INSERT
InsertParams ==
    <<locals.user_id, locals.email, locals.verification_token, locals.expiration_time,
      Bool(FALSE)>>

\* whether the connection is open after a statement of the try block
ConnOpenAfter(step, raised) ==
    IF step = "connect" /\ ~raised THEN TRUE
    ELSE IF step = "conn_close" /\ ~raised THEN FALSE
    ELSE conn_open

\* lambda_handler returns after the statement: from the except block, or
\* after the last statement
ReturnsAfter(step, raised) == raised \/ DbIndex(step) = Len(DbSteps)

\* variant of ReleasedAtReturn for a connection something else still refers to
KeptAtReturn(open) == open

\* whether the connection is open once lambda_handler has returned: conn and
\* cursor are locals of the frame, nothing else refers to them (e is unbound
\* at the end of the except block), so the return drops the last reference
\* and a psycopg2 connection that is deallocated is closed
ReleasedAtReturn(open) == FALSE

\* variant of AfterDbStep whose except block does not cover the two close calls
AfterDbStepCloseUncaught(step, raised) ==
    IF raised /\ step \notin {"cursor_close", "conn_close"}
    THEN Return(Returned(500, "Failed to log email in database"))
    ELSE IF raised
         THEN Return(Escaped("OperationalError"))
    ELSE IF DbIndex(step) < Len(DbSteps)
         THEN /\ pc' = DbSteps[DbIndex(step) + 1]
              /\ UNCHANGED response
         ELSE Return(Returned(200, "Verification email sent successfully"))

\* the except block, or the next statement, or the final return
AfterDbStep(step, raised) ==
    IF raised
    THEN Return(Returned(500, "Failed to log email in database"))
    ELSE IF DbIndex(step) < Len(DbSteps)
         THEN /\ pc' = DbSteps[DbIndex(step) + 1]
              /\ UNCHANGED response
         ELSE Return(Returned(200, "Verification email sent successfully"))

\* one statement of the try block: it returns or raises
DbStep ==
    /\ variant = "stateful"
    /\ \E i \in 1..Len(DbSteps) : pc = DbSteps[i]
    /\ \E raised \in BOOLEAN :
         /\ oracle' = Append(oracle, Outcome(pc, raised, None))
         /\ calls' = Append(calls, Call(pc, IF pc = "execute" THEN InsertParams ELSE <<>>))
         /\ conn_open' = IF ReturnsAfter(pc, raised)
                          THEN ReleasedAtReturn(ConnOpenAfter(pc, raised))
                          ELSE ConnOpenAfter(pc, raised)
         /\ AfterDbStep(pc, raised)
    /\ UNCHANGED <<variant, environ, inv, event, locals, prev>>

-----------------------------------------------------------------------------
(* The process *)

Next ==
    \/ Invoke
    \/ GetSecret
    \/ ParseEventStateless
    \/ BuildLinkStateless
    \/ SendStateless
    \/ ParseEventStateful
    \/ BuildLinkStateful
    \/ SendStateful
    \/ DbStep

Spec == Init /\ [][Next]_vars

-----
(* Vocabulary of the properties *)

Done == pc = "done"

CallIndexes(op) == {i \in 1..Len(calls) : calls[i].op = op}

CountOp(op) == Cardinality(CallIndexes(op))

DbOps == {DbSteps[i] : i \in 1..Len(DbSteps)}

\* the outcomes one collaborator gave in this invocation
OutcomesOf(who) == {oracle[i] : i \in {j \in 1..Len(oracle) : oracle[j].who = who}}

SendAccepted == \E o \in OutcomesOf("send") : ~o.raised /\ o.value = Num(Accepted)

SendRejected == \E o \in OutcomesOf("send") : ~o.raised /\ o.value # Num(Accepted)

SendRaised == \E o \in OutcomesOf("send") : o.raised

DbRaised == \E i \in 1..Len(oracle) : oracle[i].who \in DbOps /\ oracle[i].raised

\* the body json.dumps gives for {"message": text}
MessageBody(text) == S("{\"message\": \"") \o S(text) \o S("\"}")

ReturnedWith(code, text) ==
    /\ response.exc = "none"
    /\ response.statusCode = code
    /\ response.body = MessageBody(text)

\* the payload object the running handler decodes from its event
DecodedPayload ==
    IF variant = "stateless" THEN PayloadStateless(event) ELSE SnsPayload(event)

\* the event decodes to an object without email, or without the second field
LacksRequiredField ==
    /\ inv > 0
    /\ DecodedPayload.exc = "none"
    /\ DecodedPayload.v.t = "dict"
    /\ \/ ~HasKey(DecodedPayload.v, S("email"))
       \/ ~HasKey(DecodedPayload.v,
                  IF variant = "stateless" THEN S("verification_token") ELSE S("user_id"))

-----------------------------------------------------------------------------
(* C1 *)

\* C1: an event whose decoded payload lacks email, or lacks verification_token
\* (stateless) / user_id (stateful), is answered 400 and no network call is
\* attempted at any point of the invocation.
C1_MissingFieldIs400WithoutNetwork ==
    LacksRequiredField =>
        /\ calls = <<>>
        /\ Done => response.exc = "none" /\ response.statusCode = 400

-----------------------------------------------------------------------------
(* C2 *)

\* C2: when sg.send returns a response whose status is not 202, the handler
\* returns 500 and no statement of the database block runs, in both variants.
C2_RejectedSendIs500NoInsert ==
    SendRejected =>
        /\ \A i \in 1..Len(calls) : calls[i].op \notin DbOps
        /\ Done => response.exc = "none" /\ response.statusCode = 500

-----------------------------------------------------------------------------
(* C3 *)

\* C3: stateful, provider accepted (202) and a statement of the database block
\* raised: the handler returns 500 "Failed to log email in database", and the
\* one send of the invocation is neither repeated nor followed by another call.
C3_DbFailureIs500AfterSend ==
    (variant = "stateful" /\ SendAccepted /\ DbRaised) =>
        /\ Done
        /\ ReturnedWith(500, "Failed to log email in database")
        /\ CountOp("send") = 1
        /\ calls[Len(calls)].op \in DbOps
        /\ oracle[Len(oracle)].raised

C3_Witness ==
    /\ variant = "stateful"
    /\ Done
    /\ SendAccepted
    /\ \E i \in 1..Len(oracle) : oracle[i].who = "commit" /\ oracle[i].raised
    /\ response.statusCode = 500

-----------------------------------------------------------------------------
(* C5 *)

\* C5: whatever the event and whatever the collaborators do, lambda_handler
\* returns {statusCode in {200, 400, 500}, body = JSON {"message": text}}; no
\* exception escapes it, in either variant.
C5_NoExceptionEscapes ==
    Done =>
        /\ response.exc = "none"
        /\ response.statusCode \in {200, 400, 500}
        /\ LET b == json_loads(Str(response.body))
           IN  /\ b.exc = "none"
               /\ b.v.t = "dict"
               /\ Len(b.v.d) = 1
               /\ HasKey(b.v, S("message"))

-----------------------------------------------------------------------------
(* C6 *)

\* C6: stateless, the secret lookup raised or answered without SecretString:
\* the handler has returned 500 "Failed to retrieve SendGrid API Key", the
\* lookup was made once and the email provider was never called.
C6_SecretFailureIs500NoSend ==
    (variant = "stateless"
       /\ \E o \in OutcomesOf("get_secret_value") :
              o.raised \/ ~HasKey(o.value, S("SecretString"))) =>
        /\ Done
        /\ ReturnedWith(500, "Failed to retrieve SendGrid API Key")
        /\ CountOp("get_secret_value") = 1
        /\ CountOp("send") = 0
        /\ Cardinality({i \in 1..Len(oracle) : oracle[i].who = "get_secret_value"}) = 1
        /\ oracle[Len(oracle)].who = "get_secret_value"

C6_Witness ==
    /\ variant = "stateless"
    /\ Done
    /\ \E o \in OutcomesOf("get_secret_value") :
           ~o.raised /\ ~HasKey(o.value, S("SecretString"))
    /\ CountOp("get_secret_value") = 1
    /\ response.statusCode = 500

-----------------------------------------------------------------------------
(* C8 *)

\* C8: stateful: a database statement runs only after the one send of the
\* invocation returned without raising; a failed parse or a raised send leaves
\* the database untouched; at most one send and one insert, send first.
C8_InsertOnlyAfterSuccessfulSend ==
    variant = "stateful" =>
        /\ \A i \in 1..Len(calls) :
             calls[i].op \in DbOps =>
                 /\ \E j \in 1..(i - 1) : calls[j].op = "send"
                 /\ ~SendRaised
        /\ CountOp("send") <= 1
        /\ CountOp("execute") <= 1
        /\ CountOp("connect") <= 1
        /\ calls # <<>> => ParseStateful(event).exc = "none"

C8_Witness ==
    /\ variant = "stateful"
    /\ Done
    /\ CountOp("send") = 1
    /\ CountOp("execute") = 1
    /\ \A i \in CallIndexes("send") : \A j \in CallIndexes("connect") : i < j
    /\ response.statusCode = 200

-----------------------------------------------------------------------------
(* C9 *)

-----------------------------------------------------------------------------
(* C4 *)

\* what a collaborator sees of a call: the operation, and for a send the
\* recipient and the link, for the insert its parameters
CallView(c) ==
    IF c.op = "send"
    THEN [op |-> c.op, to |-> c.args.to, link |-> c.args.link]
    ELSE IF c.op = "execute" THEN [op |-> c.op, params |-> c.args]
    ELSE [op |-> c.op]

SameCalls(a, b) ==
    /\ Len(a) = Len(b)
    /\ \A i \in 1..Len(a) : CallView(a[i]) = CallView(b[i])

\* the collaborators answered alike as far as both runs asked them
SameOutcomes(a, b) ==
    \A i \in 1..(IF Len(a) < Len(b) THEN Len(a) ELSE Len(b)) : a[i] = b[i]

\* the previous invocation got the payload wrapped, the finished one got the
\* payload itself
WrappedThenDirect ==
    /\ prev.valid
    /\ Done
    /\ event \in Payloads
    /\ prev.event = Wrapped(event)
    /\ SameOutcomes(prev.oracle, oracle)

\* C4: for every payload P the wrapped event and the direct object P
\* give the same external calls and the same response, in both variants.
C4_WrappedEqualsDirect ==
    WrappedThenDirect =>
        /\ SameCalls(prev.calls, calls)
        /\ prev.response = response

-----------------------------------------------------------------------------
(* C7 *)

\* the prefix as the claim words it, from the environment value as found
ExpectedPrefix ==
    LET raw == IF HasKey(environ, S("ENV_PREFIX"))
               THEN Lookup(environ, S("ENV_PREFIX")).s
               ELSE <<>>
    IN  IF \A i \in 1..Len(raw) : IsSpace(raw[i])
        THEN <<>>
        ELSE Strip(raw) \o S(".")

\* a direct event with a non-empty str email and verification_token
ValidDirectEvent ==
    /\ inv > 0
    /\ event.t = "dict"
    /\ ~HasKey(event, S("Records"))
    /\ HasKey(event, S("email"))
    /\ HasKey(event, S("verification_token"))
    /\ Lookup(event, S("email")).t = "str"
    /\ Lookup(event, S("verification_token")).t = "str"
    /\ Lookup(event, S("email")).s # <<>>
    /\ Lookup(event, S("verification_token")).s # <<>>

\* C7: stateless, direct event with non-empty email and verification_token: the
\* link handed to the notifier is "http://" + domain_prefix +
\* "cloudjourney.me/verify?token=" + token, the recipient is the event's email,
\* and on provider acceptance the response is 200 "Verification email sent
\* successfully".
C7_DirectLinkAndSuccess ==
    (variant = "stateless" /\ ValidDirectEvent) =>
        /\ \A i \in CallIndexes("send") :
             /\ calls[i].args.link =
                    S("http://") \o ExpectedPrefix
                    \o S("cloudjourney.me/verify?token=")
                    \o Lookup(event, S("verification_token")).s
             /\ calls[i].args.to = Lookup(event, S("email"))
        /\ SendAccepted =>
             /\ Done
             /\ ReturnedWith(200, "Verification email sent successfully")

C7_Witness ==
    /\ variant = "stateless"
    /\ ValidDirectEvent
    /\ ExpectedPrefix = S("dev.")
    /\ Lookup(environ, S("ENV_PREFIX")).s # S("dev")
    /\ SendAccepted
    /\ response.statusCode = 200

-----------------------------------------------------------------------------
(* C10 *)

\* C10: the credential an invocation sends with was fetched or read
\* during that same invocation, in both variants.
C10_KeyResolvedInSameInvocation ==
    \A i \in CallIndexes("send") : calls[i].args.key_read_in = inv

====
